---------------------------- MODULE Spec2Model ----------------------------
(***************************************************************************)
(* Transport engine of the steel-plant simulation: the spatial service,    *)
(* the crane and ladle-car processes and the transport manager.            *)
(*                                                                         *)
(* Simulated time is counted in ticks.  One minute is TicksPerMinute       *)
(* ticks, the smallest unit in which the hoist travel time                 *)
(* abs(z_position - 10) / hoist_speed of crane.py is a whole number.  The  *)
(* plant geometry and the speeds are chosen so that every distance and     *)
(* every travel time the code computes with floats is a whole number;      *)
(* Sqrt has no value on any other input, so a non-exact case cannot pass   *)
(* unnoticed.                                                              *)
(***************************************************************************)
EXTENDS Integers, Sequences, FiniteSets, TLC

VARIABLES
    now,        \* env.now(), in ticks
    config,     \* the configuration the components were built from
    cars,       \* TransportManager._ladle_cars: car id -> BaseLadleCar fields
    cranes,     \* TransportManager.cranes, flattened: crane id -> Crane fields
    pending,    \* TransportManager.pending_requests (a heapq list)
    requests,   \* the request dicts created so far, by request id
    stations,   \* the station objects the agents talk to
    events,     \* salabim's event list: the scheduled agents, in order
    delivered,  \* every add_heat(heat) call made on a station, in order
    lastCall,   \* the last call made from outside, with what it returned
    hung,       \* a process loops without ever reaching a timed wait
    drains,     \* the runs of _process_pending_requests in the last step
    turns       \* the parity of the number of turns env.run() has given

vars == <<now, config, cars, cranes, pending, requests, stations, events,
          delivered, lastCall, hung, drains, turns>>

None == "None"

(***************************************************************************)
(* Bounds of the model.                                                    *)
(***************************************************************************)
MaxTime == 24       \* ticks after which no further event is processed
MaxReq == 2         \* request_transport calls in one run
MaxReqTime == 6     \* last tick at which request_transport is called
MaxPriority == 1    \* priorities run over 0..MaxPriority
MaxCalls == 3       \* direct assign_task / assign_heat calls in one run
MaxBacklog == 12    \* request_transport calls in a run that builds a backlog
MaxTapping == 4     \* the tapping requests among them
MaxBacklogTime == 0 \* last tick at which a request of the backlog is made
MaxBuilds == 2      \* agents constructed one by one in one run
MaxBuildTime == 2   \* last tick at which an agent is constructed

(***************************************************************************)
(* Program constants.                                                      *)
(***************************************************************************)
LIFT_TIME == 3              \* minutes
LOWER_TIME == 3             \* minutes
TASK_OVERHEAD == 6          \* minutes
LiftHeight == 10            \* the height the hoist travels to
HoistSpeed == 20            \* default hoist_speed
CraneAccel == 10            \* default accel
MaxDrain == 10              \* assignments per _process_pending_requests call
IdleHold == 1               \* minutes an idle agent holds
RetryHold == 1              \* minutes a car waits before asking for a crane again
ErrorHold == 1              \* minutes held after _handle_error_state
RecoveryHold == 3           \* minutes held in the error state
CriticalHold == 5           \* minutes held by the outer exception handler

TicksPerMinute == HoistSpeed \div LiftHeight

Min(m, n) == IF m <= n THEN m ELSE n
Abs(n) == IF n < 0 THEN -n ELSE n

\* ((dx**2 + dy**2)**0.5 and (2*d/a)**0.5): defined on perfect squares only.
Sqrt(n) == CHOOSE r \in 0..Min(n, 1000) : r * r = n

(***************************************************************************)
(* SpatialManager (spatial/spatial_manager.py).                            *)
(***************************************************************************)
Pos(px, py) == [x |-> px, y |-> py]
Origin == Pos(0, 0)

\* config["bays"]: bay id -> x, y, width, height.
BayConfig ==
    [bay1 |-> [x |-> 40,  y |-> 0,  width |-> 80, height |-> 120],
     bay2 |-> [x |-> 124, y |-> 40, width |-> 40, height |-> 40],
     bay3 |-> [x |-> 124, y |-> 88, width |-> 40, height |-> 40]]

BayOrder == <<"bay1", "bay2", "bay3">>
BayName(i) == BayOrder[i]

\* The bays a configuration of n bays defines.
Bays(cfg) == {BayName(i) : i \in 1..cfg.n_bays}

\* _setup_bays: the corners of a bay.
TopLeft(b) == Pos(BayConfig[b].x, BayConfig[b].y)
BottomRight(b) == Pos(BayConfig[b].x + BayConfig[b].width,
                      BayConfig[b].y + BayConfig[b].height)

\* Bay.get_center, cached in bay_centers.
bay_centers(b) == Pos((TopLeft(b).x + BottomRight(b).x) \div 2,
                      (TopLeft(b).y + BottomRight(b).y) \div 2)

Distance(p, q) == Sqrt((q.x - p.x) * (q.x - p.x) + (q.y - p.y) * (q.y - p.y))

\* One segment of get_path_between_bays; travel_time = distance / speed.
Segment(p1, p2, speed) ==
    LET d == Distance(p1, p2)
    IN  [from |-> p1, to |-> p2, distance |-> d,
         travel_time |-> (d * TicksPerMinute) \div speed]

\* The waypoints without the rail constraint: every car goes straight.
WaypointsDirect(start, end, car_type) == <<start, end>>

\* The waypoints: an L-shaped route for tapping and treatment cars.
Waypoints(start, end, car_type) ==
    IF car_type \in {"tapping", "treatment"}
        THEN <<start, Pos(end.x, start.y), end>>
        ELSE <<start, end>>

\* A path that is None.  The code never builds an empty list of segments,
\* and every caller treats None and the empty list alike ("not path").
NoPath == <<>>

\* The loop over the waypoints: one segment for each pair of neighbours.
Segments(waypoints, speed) ==
    [i \in 1..(Len(waypoints) - 1) |->
        Segment(waypoints[i], waypoints[i + 1], speed)]

\* get_path_between_bays: None for an unknown bay or a non-positive speed.
get_path_between_bays(cfg, from_bay_id, to_bay_id, car_type) ==
    IF from_bay_id \notin Bays(cfg) \/ to_bay_id \notin Bays(cfg) THEN NoPath
    ELSE IF cfg.ladle_car_speed <= 0 THEN NoPath
    ELSE Segments(Waypoints(bay_centers(from_bay_id), bay_centers(to_bay_id),
                            car_type),
                  cfg.ladle_car_speed)

\* get_bay_position: the centre of the bay, the origin for an unknown bay.
get_bay_position(cfg, bay_id) ==
    IF bay_id \in Bays(cfg) THEN bay_centers(bay_id) ELSE Origin

\* get_crane_home_position: no crane_paths are configured, so the bay centre.
get_crane_home_position(cfg, bay_id) ==
    IF bay_id \in Bays(cfg) THEN bay_centers(bay_id) ELSE Origin


(***************************************************************************)
(* heapq, as the agents use it.  A heap entry is [key, val]: key is the    *)
(* tuple's leading numbers, val its payload.  Python compares two tuples   *)
(* at their first unequal position; two request dicts have no order, so    *)
(* comparing two entries whose keys are equal and whose payloads differ    *)
(* raises TypeError.  heappush appends before it sifts and heappop         *)
(* replaces the root before it sifts, so an entry appended stays in the    *)
(* list, and the root popped is gone, when a comparison raises.            *)
(***************************************************************************)
Entry(k, v) == [key |-> k, val |-> v]

\* a < b for two entries: "lt", "ge", or "err" when the comparison raises.
Compare(a, b) ==
    LET differ == {i \in 1..Len(a.key) : a.key[i] # b.key[i]}
    IN  IF differ # {}
            THEN LET i == CHOOSE j \in differ : \A k \in differ : j <= k
                 IN  IF a.key[i] < b.key[i] THEN "lt" ELSE "ge"
            ELSE IF a.val = b.val THEN "ge" ELSE "err"

Swap(h, i, j) == [h EXCEPT ![i] = h[j], ![j] = h[i]]

RECURSIVE siftdown(_, _, _)
siftdown(h, startpos, pos) ==
    IF pos <= startpos THEN [heap |-> h, raised |-> FALSE]
    ELSE LET parentpos == pos \div 2
             cmp == Compare(h[pos], h[parentpos])
         IN  IF cmp = "err" THEN [heap |-> h, raised |-> TRUE]
             ELSE IF cmp = "ge" THEN [heap |-> h, raised |-> FALSE]
             ELSE siftdown(Swap(h, pos, parentpos), startpos, parentpos)

RECURSIVE siftup_from(_, _, _)
siftup_from(h, startpos, pos) ==
    IF pos > Len(h) \div 2 THEN siftdown(h, startpos, pos)
    ELSE LET left == 2 * pos
             cmp == IF left + 1 <= Len(h)
                        THEN Compare(h[left], h[left + 1]) ELSE "lt"
             childpos == IF cmp = "lt" THEN left ELSE left + 1
         IN  IF cmp = "err" THEN [heap |-> h, raised |-> TRUE]
             ELSE siftup_from(Swap(h, pos, childpos), startpos, childpos)

siftup(h, pos) == siftup_from(h, pos, pos)

\* heappush(heap, item): [heap, raised].
heappush(h, item) == siftdown(Append(h, item), 1, Len(h) + 1)

\* heappop(heap) on a non-empty heap: [heap, item, raised].
heappop(h) ==
    LET lastelt == h[Len(h)]
        rest == SubSeq(h, 1, Len(h) - 1)
    IN  IF rest = <<>>
            THEN [heap |-> rest, item |-> lastelt, raised |-> FALSE]
            ELSE LET r == siftup([rest EXCEPT ![1] = lastelt], 1)
                 IN  [heap |-> r.heap, item |-> rest[1], raised |-> r.raised]

(***************************************************************************)
(* The plant: the station objects, and the equipment the spatial manager   *)
(* knows (equipment_locations, filled by place_equipment).                 *)
(***************************************************************************)
\* The station objects.  bay is the object's bay attribute (None: it has
\* none); the other fields say how its methods and attributes answer:
\* "ok"/"refuse" is a call returning True/False, "full" one that refuses
\* while the station holds a ladle, "raise" one that raises RuntimeError,
\* "missing" an attribute the object does not have.
StationDef ==
    [EAF      |-> [bay |-> "bay1", caster |-> FALSE, ladle_attr |-> "ok",
                   add_ladle |-> "full", add_heat |-> "ok"],
     LMF      |-> [bay |-> "bay1", caster |-> FALSE, ladle_attr |-> "ok",
                   add_ladle |-> "ok", add_heat |-> "refuse"],
     Caster   |-> [bay |-> "bay1", caster |-> TRUE, ladle_attr |-> "raise",
                   add_ladle |-> "raise", add_heat |-> "raise"],
     RH       |-> [bay |-> "bay1", caster |-> FALSE, ladle_attr |-> "missing",
                   add_ladle |-> "missing", add_heat |-> "missing"],
     Degasser |-> [bay |-> "bay2", caster |-> FALSE, ladle_attr |-> "ok",
                   add_ladle |-> "ok", add_heat |-> "ok"],
     Stand    |-> [bay |-> "bay1", caster |-> FALSE, ladle_attr |-> "ok",
                   add_ladle |-> "refuse", add_heat |-> "ok"],
     Yard     |-> [bay |-> None, caster |-> FALSE, ladle_attr |-> "ok",
                   add_ladle |-> "ok", add_heat |-> "ok"]]

Stations == DOMAIN StationDef

\* getattr(unit, "bay", "unknown")
BayOf(u) == IF StationDef[u].bay = None THEN "unknown" ELSE StationDef[u].bay

\* The ladle standing at the EAF when the run starts, and the heat in it.
Ladles == {"L1"}
LadleHeat(l) == "H0"

InitStations == [u \in Stations |->
                    [current_ladle |-> IF u = "EAF" THEN "L1" ELSE None]]

\* f"{car_type.capitalize()}Car_{car_id}", for the car ids of the fleets.
CarNames ==
    [tapping   |-> <<"TappingCar_1", "TappingCar_2", "TappingCar_3">>,
     treatment |-> <<"TreatmentCar_1", "TreatmentCar_2", "TreatmentCar_3",
                     "TreatmentCar_4", "TreatmentCar_5", "TreatmentCar_6",
                     "TreatmentCar_7", "TreatmentCar_8", "TreatmentCar_9",
                     "TreatmentCar_10", "TreatmentCar_11">>,
     rh        |-> <<"RhCar_1", "RhCar_2", "RhCar_3">>]

\* _setup_transport_equipment numbers the cars type by type.
NCars(cfg) == Len(cfg.car_types) * cfg.n_per_type
CarTypeOf(cfg, c) == cfg.car_types[(c - 1) \div cfg.n_per_type + 1]
CarName(cfg, c) == CarNames[CarTypeOf(cfg, c)][c]

\* equipment_locations: the placed equipment with its bay, its position and
\* the station object standing there (None: no object).  "VD" is a place
\* without a station.  With cfg.placed, the location names the cars hand to
\* the cranes ("unit" and the car's own name) are placed in bay1 as well.
PlacedStations ==
    [EAF      |-> [bay_id |-> "bay1", position |-> Pos(80, 70), unit |-> "EAF"],
     LMF      |-> [bay_id |-> "bay1", position |-> Pos(80, 80), unit |-> "LMF"],
     Caster   |-> [bay_id |-> "bay1", position |-> Pos(80, 50), unit |-> "Caster"],
     RH       |-> [bay_id |-> "bay1", position |-> Pos(80, 40), unit |-> "RH"],
     VD       |-> [bay_id |-> "bay1", position |-> Pos(80, 90), unit |-> None],
     Stand    |-> [bay_id |-> "bay1", position |-> Pos(80, 30), unit |-> "Stand"],
     Degasser |-> [bay_id |-> "bay2", position |-> Pos(144, 70), unit |-> "Degasser"]]

CarLocations(cfg) == {CarName(cfg, c) : c \in 1..NCars(cfg)}
CarOfName(cfg, loc) == CHOOSE c \in 1..NCars(cfg) : CarName(cfg, c) = loc

IsPlaced(cfg, loc) ==
    \/ loc \in DOMAIN PlacedStations
    \/ cfg.placed /\ (loc = "unit" \/ loc \in CarLocations(cfg))

equipment_locations(cfg, loc) ==
    IF loc \in DOMAIN PlacedStations THEN PlacedStations[loc]
    ELSE IF loc = "unit"
        THEN [bay_id |-> "bay1", position |-> Pos(80, 100), unit |-> "EAF"]
        ELSE [bay_id |-> "bay1",
              position |-> Pos(80, 10 * CarOfName(cfg, loc)),
              unit |-> None]

\* get_unit_position: the origin for a location that is not placed.
get_unit_position(cfg, loc) ==
    IF IsPlaced(cfg, loc) THEN equipment_locations(cfg, loc).position ELSE Origin

\* is_unit_in_bay(location, bay)
is_unit_in_bay(cfg, loc, bay) ==
    IsPlaced(cfg, loc) /\ equipment_locations(cfg, loc).bay_id = bay

\* get_unit_at_location(location): the station object there, or None.
get_unit_at_location(cfg, loc) ==
    IF IsPlaced(cfg, loc) THEN equipment_locations(cfg, loc).unit ELSE None

\* The order of Python's string comparison on the location names.
LocOrder ==
    <<"Caster", "Degasser", "EAF", "LMF", "RH", "RhCar_1", "RhCar_2", "RhCar_3",
      "Stand", "TappingCar_1", "TappingCar_2", "TappingCar_3", "TreatmentCar_1",
      "TreatmentCar_10", "TreatmentCar_11", "TreatmentCar_2",
      "TreatmentCar_3", "TreatmentCar_4", "TreatmentCar_5", "TreatmentCar_6",
      "TreatmentCar_7", "TreatmentCar_8", "TreatmentCar_9", "VD", "unit">>
LocRank(loc) == CHOOSE i \in 1..Len(LocOrder) : LocOrder[i] = loc

(***************************************************************************)
(* The world the agents act on, and salabim's event list.  A turn of an    *)
(* agent is the code it runs between two timed waits; the operators below  *)
(* take the world before a call or a turn to the world after it.           *)
(***************************************************************************)
World == [now |-> now, cars |-> cars, cranes |-> cranes, pending |-> pending,
          requests |-> requests, stations |-> stations, events |-> events,
          delivered |-> delivered, hung |-> hung,
          ncb |-> 0,      \* on_idle_callback invocations within this step
          refused |-> <<>>,   \* the assignments a car has refused in this step
          drains |-> <<>>]

Ticks(minutes) == minutes * TicksPerMinute

\* hold(delay): the agent is scheduled behind every event due by then.
Schedule(w, kind, id, delay) ==
    LET t == w.now + delay
        e == w.events
        n == Cardinality({i \in 1..Len(e) : e[i].time <= t})
    IN  [w EXCEPT !.events = SubSeq(e, 1, n)
                              \o <<[time |-> t, kind |-> kind, id |-> id]>>
                              \o SubSeq(e, n + 1, Len(e))]

(***************************************************************************)
(* Crane (equipment/crane.py).                                             *)
(***************************************************************************)
ZPosition == 0

\* Crane.__init__
NewCrane(cfg, bay) ==
    [bay |-> bay, state |-> "idle", current_heat |-> None,
     current_ladle |-> None, source |-> None, destination |-> None,
     position |-> get_crane_home_position(cfg, bay), task_queue |-> <<>>,
     busy_time |-> 0, last_state_change |-> 0, task_count |-> 0,
     error_count |-> 0,
     pc |-> "start",        \* the timed wait the process is suspended at
     current_time |-> 0,    \* process(): env.now() at the top of the loop
     \* History, read by the properties only:
     spent |-> 0,           \* the simulated time spent outside the idle state
     seen |-> 0]            \* the time up to which spent is counted

SetCrane(w, k, c) == [w EXCEPT !.cranes[k] = c]

\* Crane(env, crane_id, bay, speed, spatial_manager=...): [raised, crane].
\* raised: the ValueError for a speed that is not positive, before the
\* component is created.  Without a spatial manager the crane stands at
\* the origin.
Crane(cfg, bay, speed, spatial_manager) ==
    IF ~(speed > 0) THEN [raised |-> TRUE, crane |-> None]
    ELSE [raised |-> FALSE,
          crane |-> [NewCrane(cfg, bay) EXCEPT
                        !.position = IF spatial_manager THEN @ ELSE Origin]]

\* _calculate_movement_time: the trapezoidal velocity profile.
calculate_movement_time(start, end) ==
    LET distance == Distance(start, end)
        t_accel == config.crane_speed \div CraneAccel
        d_accel == (CraneAccel * t_accel * t_accel) \div 2
    IN  IF distance < 2 * d_accel
            THEN Sqrt((2 * distance * TicksPerMinute * TicksPerMinute)
                      \div CraneAccel)
            ELSE Ticks(2 * t_accel)
                 + ((distance - 2 * d_accel) * TicksPerMinute)
                   \div config.crane_speed

calculate_lift_time ==
    (Abs(ZPosition - LiftHeight) * TicksPerMinute) \div HoistSpeed
    + Ticks(LIFT_TIME)

calculate_lower_time ==
    (Abs(ZPosition - LiftHeight) * TicksPerMinute) \div HoistSpeed
    + Ticks(LOWER_TIME)

\* get_position / find_unit, through the spatial manager.
get_position(location) == get_unit_position(config, location)
find_unit(location) == get_unit_at_location(config, location)

\* is_in_bay when the call into the spatial manager raises: no place is
\* taken to be in the bay.
is_in_bay_failsafe(c, location) == FALSE

\* is_in_bay, through the spatial manager.
is_in_bay(c, location) == is_unit_in_bay(config, location, c.bay)

\* is_available
crane_is_available(c) == c.state = "idle" /\ c.task_queue = <<>>

\* assign_task that lets a new task take over a busy crane.
assign_task_preempting(w, k, source, destination, priority) ==
    [w |-> SetCrane(w, k, [w.cranes[k] EXCEPT !.source = source,
                                              !.destination = destination,
                                              !.state = "moving"]),
     ret |-> 0]

\* assign_task(source, destination, priority): [w, ret].
assign_task(w, k, source, destination, priority) ==
    LET c == w.cranes[k]
    IN  IF source = None \/ destination = None THEN [w |-> w, ret |-> 0]
        ELSE IF c.state # "idle" \/ c.task_queue # <<>>
            THEN [w |-> SetCrane(w, k, [c EXCEPT !.task_queue =
                        heappush(@, Entry(<<0 - priority, LocRank(source),
                                           LocRank(destination)>>,
                                          <<source, destination>>)).heap]),
                  ret |-> 0]
        ELSE IF ~is_in_bay(c, source) \/ ~is_in_bay(c, destination)
            THEN [w |-> w, ret |-> 0]
        ELSE [w |-> SetCrane(w, k, [c EXCEPT !.source = source,
                                             !.destination = destination,
                                             !.state = "moving",
                                             !.last_state_change = w.now,
                                             !.task_count = @ + 1,
                                             !.seen = w.now]),
              ret |-> calculate_movement_time(c.position, get_position(source))
                      + Ticks(TASK_OVERHEAD)]

\* The process is suspended at the timed wait pc for delay ticks.
CraneYield(w, k, pc, delay) ==
    Schedule(SetCrane(w, k, [w.cranes[k] EXCEPT !.pc = pc]), "crane", k, delay)

\* _handle_error_state
handle_error_state(w, k) ==
    SetCrane(w, k, [w.cranes[k] EXCEPT !.error_count = @ + 1,
                                       !.state = "error",
                                       !.last_state_change = w.now])

\* except (ValueError, TypeError, AttributeError) of a phase.
CraneErrorExit(w, k) ==
    CraneYield(handle_error_state(w, k), k, "err_hold", Ticks(ErrorHold))

\* except Exception of the loop, up to its hold(5).
CraneCriticalExit(w, k) ==
    CraneYield(SetCrane(w, k, [w.cranes[k] EXCEPT !.error_count = @ + 1]),
               k, "crit_hold", Ticks(CriticalHold))

\* Busy-time tracking that does not look at the state.
TrackBusyAlways(w, k) ==
    SetCrane(w, k, [w.cranes[k] EXCEPT !.busy_time =
                        @ + (w.now - w.cranes[k].current_time)])

\* "Track busy time", at the end of an iteration of the loop.
TrackBusyTime(w, k) ==
    LET c == w.cranes[k]
    IN  IF c.state # "idle"
            THEN SetCrane(w, k, [c EXCEPT !.busy_time =
                                     @ + (w.now - c.current_time)])
            ELSE w

ClearTask(c) == [c EXCEPT !.current_ladle = None, !.current_heat = None,
                          !.source = None, !.destination = None]

RECURSIVE CraneLoop(_, _)

\* The idle branch after assign_task has answered with r for the task
\* popped from a queue of n tasks.  An idle crane with two or more queued
\* tasks pops one, assign_task queues it again, and the loop starts over
\* without a wait: the process hangs.
CraneDequeued(w, k, n) ==
    IF w.cranes[k].state = "idle" /\ Len(w.cranes[k].task_queue) >= n
        THEN [w EXCEPT !.hung = TRUE]
        ELSE CraneLoop(w, k)

\* The idle branch after heappop has answered with p.
CranePopped(w, k, p) ==
    CraneDequeued(
        TrackBusyTime(
            assign_task(SetCrane(w, k, [w.cranes[k] EXCEPT
                                           !.task_queue = p.heap]),
                        k, p.item.val[1], p.item.val[2], 0).w,
            k),
        k, Len(w.cranes[k].task_queue))

\* process(): from the top of the loop to the next timed wait.
CraneLoop(w0, k) ==
    LET w == SetCrane(w0, k, [w0.cranes[k] EXCEPT !.current_time = w0.now])
        c == w.cranes[k]
    IN  IF c.state = "idle" /\ c.task_queue # <<>> THEN
            CranePopped(w, k, heappop(c.task_queue))
        ELSE IF c.state = "moving" THEN
            IF c.destination = None THEN CraneErrorExit(w, k)
            ELSE CraneYield(w, k, "moving_hold",
                     calculate_movement_time(c.position,
                                             get_position(c.destination)))
        ELSE IF c.state = "lifting" THEN
            IF c.source = None THEN CraneErrorExit(w, k)
            ELSE CraneYield(w, k, "lifting_hold", calculate_lift_time)
        ELSE IF c.state = "lowering" THEN
            IF c.destination = None THEN CraneErrorExit(w, k)
            ELSE CraneYield(w, k, "lowering_hold", calculate_lower_time)
        ELSE IF c.state = "error" THEN
            CraneYield(SetCrane(w, k, ClearTask(c)), k, "error_hold",
                       Ticks(RecoveryHold))
        ELSE CraneYield(w, k, "idle_hold", Ticks(IdleHold))

\* How a turn goes on after the code that follows a wait: "track" to the
\* busy-time tracking at the end of the iteration, "loop" to the top of the
\* loop (continue), "yield" when that code ended at a wait of its own.
Goes(w, next) == [w |-> w, next |-> next]

\* The end of the moving phase that always goes on to the pick-up.
CraneMovedToLift(w, k) ==
    SetCrane(w, k, [w.cranes[k] EXCEPT
                       !.position = get_position(w.cranes[k].destination),
                       !.state = "lifting",
                       !.last_state_change = w.now])

\* After the hold of the moving phase.
CraneMoved(w, k) ==
    LET c == w.cranes[k]
    IN  SetCrane(w, k, [c EXCEPT !.position = get_position(c.destination),
                                 !.state = IF c.current_ladle = None
                                               THEN "lifting" ELSE "lowering",
                                 !.last_state_change = w.now])

\* The pick-up that treats a unit without a ladle as an error.
CraneLiftedOrError(w, k) ==
    LET c == w.cranes[k]
        unit == find_unit(c.source)
    IN  IF \/ unit = None
           \/ StationDef[unit].ladle_attr # "ok"
           \/ w.stations[unit].current_ladle = None
            THEN Goes(handle_error_state(w, k), "error")
        ELSE Goes(SetCrane([w EXCEPT !.stations[unit].current_ladle = None], k,
                      [c EXCEPT !.current_ladle = w.stations[unit].current_ladle,
                                !.current_heat =
                                    LadleHeat(w.stations[unit].current_ladle),
                                !.state = "moving",
                                !.last_state_change = w.now]),
                  "track")

\* After the hold of the lifting phase: the pick-up at the source.
CraneLifted(w, k) ==
    LET c == w.cranes[k]
        unit == find_unit(c.source)
        raises == IF unit = None THEN "error"
                  ELSE IF StationDef[unit].ladle_attr = "raise" THEN "critical"
                  ELSE IF StationDef[unit].ladle_attr = "missing" THEN "error"
                  ELSE "none"
    IN  IF raises # "none"
            THEN Goes(IF raises = "error" THEN handle_error_state(w, k) ELSE w,
                      raises)
        ELSE IF w.stations[unit].current_ladle = None
            THEN Goes(SetCrane(w, k, [c EXCEPT !.state = "idle",
                                               !.source = None,
                                               !.destination = None]),
                      "loop")
        ELSE Goes(SetCrane([w EXCEPT !.stations[unit].current_ladle = None], k,
                      [c EXCEPT !.current_ladle = w.stations[unit].current_ladle,
                                !.current_heat =
                                    LadleHeat(w.stations[unit].current_ladle),
                                !.state = "moving",
                                !.last_state_change = w.now]),
                  "track")

\* The drop that keeps the ladle, and the task, until the unit accepts it.
CraneLoweredRetrying(w, k) ==
    LET c == w.cranes[k]
        unit == find_unit(c.destination)
        how == StationDef[unit].add_ladle
        accepted == \/ how = "ok"
                    \/ how = "full" /\ w.stations[unit].current_ladle = None
    IN  IF unit = None THEN Goes(handle_error_state(w, k), "error")
        ELSE IF ~accepted THEN Goes(w, "track")
        ELSE Goes(SetCrane([w EXCEPT !.stations[unit].current_ladle =
                                         c.current_ladle],
                           k, [ClearTask(c) EXCEPT !.state = "idle",
                                                   !.last_state_change = w.now]),
                  "track")

\* After the hold of the lowering phase: the drop at the destination.
CraneLowered(w, k) ==
    LET c == w.cranes[k]
        unit == find_unit(c.destination)
        how == StationDef[unit].add_ladle
        failed == how \in {"missing", "raise"} \/ c.current_ladle = None
        accepted == /\ ~failed
                    /\ \/ how = "ok"
                       \/ how = "full" /\ w.stations[unit].current_ladle = None
        w1 == IF accepted
                  THEN [w EXCEPT !.stations[unit].current_ladle = c.current_ladle]
                  ELSE w
        done == [ClearTask(c) EXCEPT !.error_count = IF failed THEN @ + 1 ELSE @,
                                     !.state = "idle",
                                     !.last_state_change = w.now]
    IN  IF unit = None THEN Goes(handle_error_state(w, k), "error")
        ELSE Goes(SetCrane(w1, k, done), "track")

\* The code that follows the wait the crane was suspended at.
CraneAfterHold(w, k) ==
    LET c == w.cranes[k]
        idle == [c EXCEPT !.state = "idle", !.last_state_change = w.now]
    IN  CASE c.pc = "start" -> Goes(w, "loop")
          [] c.pc \in {"idle_hold", "err_hold"} -> Goes(w, "track")
          [] c.pc = "moving_hold" -> Goes(CraneMoved(w, k), "track")
          [] c.pc = "lifting_hold" -> CraneLifted(w, k)
          [] c.pc = "lowering_hold" -> CraneLowered(w, k)
          [] c.pc = "error_hold" -> Goes(SetCrane(w, k, idle), "track")
          [] c.pc = "crit_hold" -> Goes(SetCrane(w, k, idle), "loop")

\* The rest of the turn: the wait of an exception handler, or the loop up
\* to the next wait.
CraneResume(r, k) ==
    CASE r.next = "error" ->
             CraneYield(r.w, k, "err_hold", Ticks(ErrorHold))
      [] r.next = "critical" -> CraneCriticalExit(r.w, k)
      [] r.next = "track" -> CraneLoop(TrackBusyTime(r.w, k), k)
      [] r.next = "loop" -> CraneLoop(r.w, k)

\* History: the time since the last count is added to the time spent
\* outside the idle state if the crane was not idle.  The state changes in
\* the crane's own turns and in assign_task only.
Accounted(w, k) ==
    SetCrane(w, k, [w.cranes[k] EXCEPT
                       !.spent = IF w.cranes[k].state # "idle"
                                     THEN @ + (w.now - w.cranes[k].seen)
                                     ELSE @,
                       !.seen = w.now])

\* One turn of the crane's process: what follows the wait it was suspended
\* at, then the loop up to the next wait.
CraneTurn(w, k) == CraneResume(CraneAfterHold(Accounted(w, k), k), k)

(***************************************************************************)
(* BaseLadleCar (equipment/ladle_car.py) and TransportManager              *)
(* (equipment/transport_manager.py).                                       *)
(***************************************************************************)
\* self.destination = None
NoDest == [bay |-> None, unit |-> None]
NoJob == [heat |-> None, unit |-> None]

\* The heat objects: every request and every direct call carries its own.
HeatNames == <<"H1", "H2", "H3", "H4", "H5", "H6", "H7", "H8", "H9", "H10",
               "H11", "H12", "H13">>

\* The fields BaseLadleCar.__init__ sets.
NewCarOf(car_type, home_bay, position) ==
        [car_type |-> car_type, status |-> "idle",
         current_bay |-> home_bay,
         position |-> position,
         current_heat |-> None, destination |-> NoDest, path |-> <<>>,
         current_path_segment |-> 0, total_distance_traveled |-> 0,
         pc |-> "start",          \* the timed wait the process is suspended at
         to_point |-> Origin,     \* process(): local of the moving branch
         target_unit |-> None,    \* process(): local of the unloading branch
         load_time |-> 0,         \* process(): local load_time / unload_time
         \* History, read by the properties only:
         trace |-> <<"idle">>,    \* the statuses since the last assignment
         n_idle |-> 0,            \* how often the status has changed to idle
         n_fault |-> 0,           \* how often the process has found its job broken
         dropped |-> {},          \* the heats given up for an invalid target unit
         job |-> NoJob]             \* heat and unit of the last assignment

\* create_ladle_car for car car_id of the fleet.
NewCar(cfg, car_id) ==
    NewCarOf(CarTypeOf(cfg, car_id),
             BayName(((car_id - 1) % cfg.n_bays) + 1),
             get_bay_position(cfg, BayName(((car_id - 1) % cfg.n_bays) + 1)))

\* car_type.lower(), on the names a caller passes.
Lower(car_type) ==
    CASE car_type = "RH" -> "rh"
      [] car_type = "Tapping" -> "tapping"
      [] OTHER -> car_type

valid_types == {"tapping", "treatment", "rh"}

\* BaseLadleCar(env, car_id, car_type, home_bay, speed, spatial_manager,
\* on_idle_callback): [raised, car].  raised: the ValueError for a car type
\* that is not valid, before the component is created.  Without a spatial
\* manager the car stands at the origin.
BaseLadleCar(cfg, car_type, home_bay, speed, spatial_manager) ==
    IF Lower(car_type) \notin valid_types THEN [raised |-> TRUE, car |-> None]
    ELSE [raised |-> FALSE,
          car |-> NewCarOf(Lower(car_type), home_bay,
                           IF spatial_manager
                               THEN get_bay_position(cfg, home_bay)
                               ELSE Origin)]

SetCar(w, c, car) == [w EXCEPT !.cars[c] = car]

\* The crane ids of a bay, in the order of TransportManager.cranes[bay].
CranesOf(cfg, bay) ==
    {k \in 1..(cfg.n_bays * cfg.n_cranes_per_bay) :
        BayName(((k - 1) \div cfg.n_cranes_per_bay) + 1) = bay}

\* _request_crane that takes the first crane of the bay, available or not.
request_crane_busy(w, bay) ==
    IF CranesOf(config, bay) = {} THEN 0
    ELSE CHOOSE k \in CranesOf(config, bay) :
             \A j \in CranesOf(config, bay) : k <= j

\* _request_crane: the first available crane of the bay, 0 for None.
request_crane_for(w, bay) ==
    LET free == {k \in CranesOf(config, bay) : crane_is_available(w.cranes[k])}
    IN  IF free = {} THEN 0 ELSE CHOOSE k \in free : \A j \in free : k <= j

\* The attributes Crane.__init__ sets on a crane.
CraneAttributes ==
    {"unit_id", "bay", "speed", "accel", "hoist_speed", "crane_state",
     "current_heat", "current_ladle", "source", "destination", "position",
     "z_position", "spatial_manager", "task_queue", "busy_time",
     "distance_cache", "state_lock", "last_state_change", "task_count",
     "error_count", "operation_times"}

\* request_crane from the scan of the bay's pool on: the first available
\* crane, whose crane_id is read for the log line before it is returned.
request_crane_found(w, available_cranes) ==
    IF available_cranes = {} THEN [w |-> w, ret |-> 0, raised |-> FALSE]
    ELSE IF "crane_id" \notin CraneAttributes
        THEN [w |-> w, ret |-> 0, raised |-> TRUE]    \* AttributeError
    ELSE [w |-> w,
          ret |-> CHOOSE k \in available_cranes :
                      \A j \in available_cranes : k <= j,
          raised |-> FALSE]

\* TransportManager.request_crane(bay, task): [w, ret, raised], ret 0 for
\* None.
request_crane(w, bay) ==
    IF bay \notin Bays(config) THEN [w |-> w, ret |-> 0, raised |-> FALSE]
    ELSE request_crane_found(
             w, {k \in CranesOf(config, bay) :
                    crane_is_available(w.cranes[k])})

\* SpatialManager.get_path, as ladle_car.py calls it.  fault replaces the
\* answer: "no_path" by None (or the empty list), "malformed" by a segment
\* without travel_time.
get_path(cfg, from_bay, to_bay, car_type, fault) ==
    CASE fault = "no_path" -> NoPath
      [] fault = "malformed" -> <<[from |-> Origin, to |-> Origin]>>
      [] OTHER -> get_path_between_bays(cfg, from_bay, to_bay, car_type)

ValidPath(path) ==
    path # <<>> /\ \A i \in 1..Len(path) : "travel_time" \in DOMAIN path[i]

\* _calculate_distance, once the path is known: the first segment's
\* distance, or the straight line between the two bay positions.
path_distance(path, from_pos, to_pos) ==
    IF path # NoPath THEN path[1].distance ELSE Distance(from_pos, to_pos)

\* _calculate_distance
calculate_distance(cfg, from_bay, to_bay) ==
    path_distance(get_path_between_bays(cfg, from_bay, to_bay, None),
                  get_bay_position(cfg, from_bay),
                  get_bay_position(cfg, to_bay))

RECURSIVE set_status(_, _, _)

\* assign_heat from the path check on: [w, ret].
assign_path(w, c, heat, destination, path) ==
    LET car == w.cars[c]
    IN  IF ~ValidPath(path)
            THEN [w |-> SetCar(w, c, [car EXCEPT !.path = path,
                                                 !.current_heat = None,
                                                 !.destination = NoDest]),
                  ret |-> FALSE]
        ELSE [w |-> set_status(
                        SetCar(w, c, [car EXCEPT !.current_heat = heat,
                                                 !.destination = destination,
                                                 !.path = path,
                                                 !.current_path_segment = 0,
                                                 !.trace = <<"idle">>,
                                                 !.job = [heat |-> heat,
                                                     unit |-> destination.unit]]),
                        c, "loading"),
              ret |-> TRUE]

\* assign_heat without the check of the car's status.
assign_heat_unchecked(w, c, heat, destination, fault) ==
    assign_path(w, c, heat, destination,
                get_path(config, w.cars[c].current_bay, destination.bay,
                         w.cars[c].car_type, fault))

\* assign_heat that keeps the heat and the destination of a rejected path.
assign_heat_keeping(w, c, heat, destination, fault) ==
    [w |-> SetCar(w, c, [w.cars[c] EXCEPT !.current_heat = heat,
                                          !.destination = destination]),
     ret |-> FALSE]

\* assign_heat(heat, destination): [w, ret].
assign_heat(w, c, heat, destination, fault) ==
    IF w.cars[c].status # "idle" THEN [w |-> w, ret |-> FALSE]
    ELSE assign_path(w, c, heat, destination,
                     get_path(config, w.cars[c].current_bay, destination.bay,
                              w.cars[c].car_type, fault))

\* heappush(self.pending_requests, (priority, timestamp, request)); break
requeue(w, item) ==
    [w |-> [w EXCEPT !.pending = heappush(w.pending, item).heap],
     raised |-> heappush(w.pending, item).raised]

\* available_cars[0]: the first car, whatever the distances.
first_car(available_cars, distance) ==
    CHOOSE c \in available_cars : \A d \in available_cars : c <= d

\* min(available_cars, key=distance): the first car at the least distance.
closest_car(available_cars, distance) ==
    CHOOSE c \in available_cars :
        \A d \in available_cars :
            \/ distance[c] < distance[d]
            \/ distance[c] = distance[d] /\ c <= d

RECURSIVE drain_pending(_, _)

\* The loop of _process_pending_requests without its limit.
drain_stops_unbounded(w, processed_count) == w.pending = <<>>

\* while self.pending_requests and processed_count < 10, negated.
drain_stops(w, processed_count) ==
    w.pending = <<>> \/ processed_count >= MaxDrain

\* The request ids in a heap of pending entries.
Queued(q) == {q[n].val : n \in DOMAIN q}

\* History, read by the properties only: the car has refused the request
\* of the heap entry item, and q is what the routine has left of it.
Refusal(q, item, car) ==
    [q EXCEPT !.w.refused = Append(@,
        [request |-> item.val, car |-> car,
         status |-> q.w.requests[item.val].status,
         assigned_car |-> q.w.requests[item.val].assigned_car,
         entries |-> SelectSeq(q.w.pending, LAMBDA e : e.val = item.val),
         car_status |-> q.w.cars[car].status,
         car_heat |-> q.w.cars[car].current_heat,
         assigned |-> {i \in DOMAIN q.w.requests :
                          q.w.requests[i].status = "assigned"},
         queued |-> Queued(q.w.pending)])]

\* The refusal that leaves the request marked as assigned.
drain_refused_marked(w, item, car) ==
    Refusal(requeue(w, item), item, car)

\* assign_heat has answered False: the request is pending again, without a
\* car, and back in the queue; break.
drain_refused(w, item, car) ==
    Refusal(requeue([w EXCEPT !.requests[item.val].status = "pending",
                              !.requests[item.val].assigned_car = 0],
                    item),
            item, car)

\* The loop body after closest_car.assign_heat has answered with r.
drain_assigned(w, processed_count, item, car, r) ==
    LET rid == item.val
    IN  IF r.ret
            THEN drain_pending(
                     [r.w EXCEPT !.requests[rid].order =
                         1 + Cardinality({i \in DOMAIN w.requests :
                                             w.requests[i].order > 0})],
                     processed_count + 1)
            ELSE drain_refused(r.w, item, car)

\* The loop body that hands the heat to the car and leaves the request as
\* it was.
drain_assign_unmarked(w, processed_count, item, car) ==
    drain_assigned(
        w, processed_count, item, car,
        assign_heat(w, car, w.requests[item.val].heat,
                    [bay |-> w.requests[item.val].to_bay,
                     unit |-> w.requests[item.val].to_unit],
                    "none"))

\* The loop body for a pending request with an available car.
drain_assign(w, processed_count, item, car) ==
    LET rid == item.val
        request == w.requests[rid]
    IN  drain_assigned(
            w, processed_count, item, car,
            assign_heat([w EXCEPT !.requests[rid].status = "assigned",
                                  !.requests[rid].assigned_car = car],
                        car, request.heat,
                        [bay |-> request.to_bay, unit |-> request.to_unit],
                        "none"))

\* The loop body after heappop has answered with p.
drain_popped(w, processed_count, p) ==
    LET w1 == [w EXCEPT !.pending = p.heap]
        request == w.requests[p.item.val]
        available_cars == {c \in DOMAIN w.cars :
                              /\ w.cars[c].car_type = request.car_type
                              /\ w.cars[c].status = "idle"}
    IN  IF p.raised THEN [w |-> w1, raised |-> TRUE]
        ELSE IF request.status # "pending"
            THEN drain_pending(w1, processed_count)
        ELSE IF available_cars = {} THEN requeue(w1, p.item)
        ELSE drain_assign(
                 w1, processed_count, p.item,
                 closest_car(available_cars,
                     [c \in available_cars |->
                         calculate_distance(config, w.cars[c].current_bay,
                                            request.from_bay)]))

\* _process_pending_requests, from an iteration of its loop on:
\* [w, raised], raised when a heap comparison raises TypeError.
drain_pending(w, processed_count) ==
    IF drain_stops(w, processed_count)
        THEN [w |-> w, raised |-> FALSE]
        ELSE drain_popped(w, processed_count, heappop(w.pending))

\* History, read by the properties only: a run of the routine that began
\* at w with requests pending and ended with r is added to w.drains, with
\* the request at the head and the idle cars when it began, the requests
\* in the queue before and after it, and the requests it assigned.
drain_logged(w, r) ==
    IF w.pending = <<>> THEN r
    ELSE [r EXCEPT !.w.drains = Append(@,
             [head |-> w.pending[1].val,
              idle |-> {c \in DOMAIN w.cars : w.cars[c].status = "idle"},
              before |-> Queued(w.pending),
              after |-> Queued(r.w.pending),
              assigned |-> {i \in DOMAIN w.requests :
                               /\ w.requests[i].status = "pending"
                               /\ r.w.requests[i].status = "assigned"},
              all_assigned |-> {i \in DOMAIN r.w.requests :
                                   r.w.requests[i].status = "assigned"},
              refused |-> SubSeq(r.w.refused, Len(w.refused) + 1,
                                 Len(r.w.refused)),
              raised |-> r.raised])]

\* _process_pending_requests
process_pending_requests(w) == drain_logged(w, drain_pending(w, 0))

\* on_idle_callback() inside try/except: an exception is logged and dropped.
on_idle_callback(w) ==
    [process_pending_requests(w).w EXCEPT !.ncb = @ + 1]

\* set_status that never runs the idle callback.
set_status_silent(w, c, new_status) ==
    IF new_status = w.cars[c].status THEN w
    ELSE SetCar(w, c, [w.cars[c] EXCEPT
                          !.status = new_status,
                          !.trace = Append(@, new_status),
                          !.n_idle = IF new_status = "idle" THEN @ + 1 ELSE @])

\* set_status(new_status), for a valid status.
set_status(w, c, new_status) ==
    IF new_status = w.cars[c].status THEN w
    ELSE LET w1 == SetCar(w, c, [w.cars[c] EXCEPT
                                    !.status = new_status,
                                    !.trace = Append(@, new_status),
                                    !.n_idle = IF new_status = "idle"
                                                   THEN @ + 1 ELSE @])
         IN  IF new_status = "idle" THEN on_idle_callback(w1) ELSE w1

\* request_transport after the heappush has answered with q.
request_pushed(w, request, q) ==
    LET w1 == [w EXCEPT !.requests = Append(@, request), !.pending = q.heap]
    IN  IF q.raised THEN [w |-> w1, raised |-> TRUE]
                    ELSE process_pending_requests(w1)

\* return True, unless an exception left the call before.
returned(d) == [w |-> d.w, ret |-> ~d.raised, raised |-> d.raised]

\* request_transport with the two car types the other way round.
request_transport_swapped(w, heat, from_unit, to_unit, priority) ==
    returned(request_pushed(
        w,
        [heat |-> heat, from_unit |-> from_unit, to_unit |-> to_unit,
         from_bay |-> BayOf(from_unit), to_bay |-> BayOf(to_unit),
         car_type |-> IF BayOf(from_unit) # BayOf(to_unit) THEN "treatment"
                                                           ELSE "tapping",
         time_requested |-> w.now, status |-> "pending", assigned_car |-> 0,
         priority |-> priority, order |-> 0],
        heappush(w.pending,
                 Entry(<<priority, w.now>>, Len(w.requests) + 1))))

\* request_transport(heat, from_unit, to_unit, priority): [w, ret, raised].
request_transport(w, heat, from_unit, to_unit, priority) ==
    LET from_bay == BayOf(from_unit)
        to_bay == BayOf(to_unit)
        car_type == IF StationDef[to_unit].caster THEN "treatment"
                    ELSE IF from_bay # to_bay THEN "tapping" ELSE "treatment"
        request == [heat |-> heat, from_unit |-> from_unit,
                    to_unit |-> to_unit, from_bay |-> from_bay,
                    to_bay |-> to_bay, car_type |-> car_type,
                    time_requested |-> w.now, status |-> "pending",
                    assigned_car |-> 0,    \* 0: None
                    \* History, read by the properties only:
                    priority |-> priority,
                    order |-> 0]           \* its rank among the assignments
    IN  returned(request_pushed(
            w, request,
            heappush(w.pending,
                     Entry(<<priority, w.now>>, Len(w.requests) + 1))))

\* The process is suspended at the timed wait pc for delay ticks.
CarYield(w, c, pc, delay) ==
    Schedule(SetCar(w, c, [w.cars[c] EXCEPT !.pc = pc]), "car", c, delay)

\* except Exception of the loop: set_status("idle"), hold(1).
CarExceptionExit(w, c) ==
    CarYield(set_status(w, c, "idle"), c, "exc_hold", Ticks(RetryHold))

\* History: the process has found its path or its target unit invalid.
CarDetected(w, c) ==
    SetCar(w, c, [w.cars[c] EXCEPT
                     !.n_fault = @ + 1,
                     !.dropped = IF w.cars[c].status = "unloading"
                                     THEN @ \cup {w.cars[c].current_heat}
                                     ELSE @])

\* The moving branch for an invalid path, after set_status("idle").
CarPathReset(w, c) ==
    SetCar(w, c, [w.cars[c] EXCEPT !.path = <<>>,
                                   !.current_path_segment = 0,
                                   !.destination = NoDest])

\* The unloading branch for an invalid target that keeps the heat.
CarHeatKept(w, c) == w

\* The unloading branch for an invalid target, after set_status("idle").
CarHeatReset(w, c) == SetCar(w, c, [w.cars[c] EXCEPT !.current_heat = None])

\* The loading and unloading branches after crane.assign_task has answered
\* with r: the log line reads current_heat.id, then the car holds for the
\* time the crane gave.
CarCraned(r, c, pc, target_unit) ==
    IF r.w.cars[c].current_heat = None    \* current_heat.id raises
        THEN CarExceptionExit(r.w, c)
        ELSE CarYield(SetCar(r.w, c, [r.w.cars[c] EXCEPT
                                         !.target_unit = target_unit,
                                         !.load_time = r.ret]),
                      c, pc, r.ret)

\* process(): from the top of the loop to the next timed wait.
RECURSIVE CarLoop(_, _)
CarLoop(w, c) ==
    LET car == w.cars[c]
        name == CarName(config, c)
        crane == request_crane_for(w, car.current_bay)
    IN  IF car.status = "idle" THEN
            CarYield(on_idle_callback(w), c, "idle_hold", Ticks(IdleHold))
        ELSE IF car.status = "moving" THEN
            IF car.path = <<>> \/ car.current_path_segment >= Len(car.path)
            THEN CarLoop(CarPathReset(set_status(CarDetected(w, c), c, "idle"),
                                      c), c)
            ELSE LET segment == car.path[car.current_path_segment + 1]
                     travel_time == IF "travel_time" \in DOMAIN segment
                                        THEN segment.travel_time ELSE 0
                 IN  CarYield(SetCar(w, c, [car EXCEPT
                                  !.to_point = segment.to,
                                  !.total_distance_traveled =
                                      @ + Distance(car.position, segment.to)]),
                              c, "move_hold",
                              IF travel_time <= 0 THEN Ticks(1) ELSE travel_time)
        ELSE IF car.status = "loading" THEN
            IF crane = 0 THEN CarYield(w, c, "wait_hold", Ticks(RetryHold))
            ELSE CarCraned(assign_task(w, crane, "unit", name, 0), c,
                           "load_hold", car.target_unit)
        ELSE \* unloading
            IF crane = 0 THEN CarYield(w, c, "wait_hold", Ticks(RetryHold))
            ELSE IF \/ car.destination.unit = None
                    \/ StationDef[car.destination.unit].add_heat = "missing"
                THEN CarLoop(CarHeatReset(set_status(CarDetected(w, c), c, "idle"),
                                          c), c)
            ELSE CarCraned(assign_task(w, crane, name, "unit", 0), c,
                           "unload_hold", car.destination.unit)

\* The moving branch at the end of the path, after set_status.
CarArrived(w, c) ==
    IF w.cars[c].current_heat # None THEN w ELSE CarPathReset(w, c)

\* The end of a segment that leaves current_path_segment as it was.
CarMovedNotCounting(w, c) ==
    SetCar(w, c, [w.cars[c] EXCEPT !.position = w.cars[c].to_point])

\* After the hold of the moving branch: the end of a segment.
CarMoved(w, c) ==
    LET car == [w.cars[c] EXCEPT !.position = w.cars[c].to_point,
                                 !.current_path_segment = @ + 1]
    IN  IF car.current_path_segment < Len(car.path) THEN SetCar(w, c, car)
        ELSE IF car.destination = NoDest
            THEN set_status(SetCar(w, c, car), c, "idle")
        ELSE CarArrived(
                 set_status(SetCar(w, c, [car EXCEPT !.current_bay =
                                             car.destination.bay]),
                            c, IF car.current_heat # None THEN "unloading"
                                                          ELSE "idle"),
                 c)

\* The end of the unloading without the hand-over to the unit.
CarUnloadedNoHandOver(w, c) ==
    set_status(SetCar(w, c, [w.cars[c] EXCEPT !.current_heat = None,
                                              !.destination = NoDest,
                                              !.path = <<>>,
                                              !.current_path_segment = 0]),
               c, "idle")

\* After the hold of the unloading branch: the hand-over of the heat.
CarUnloaded(w, c) ==
    LET car == w.cars[c]
        how == StationDef[car.target_unit].add_heat
        w1 == [w EXCEPT !.delivered = Append(@,
                   [unit |-> car.target_unit, heat |-> car.current_heat,
                    car |-> c, time |-> w.now])]
    IN  IF how = "raise" THEN CarExceptionExit(w1, c)
        ELSE set_status(SetCar(w1, c, [car EXCEPT
                                          !.current_heat = None,
                                          !.destination = NoDest,
                                          !.path = <<>>,
                                          !.current_path_segment = 0]),
                        c, "idle")

\* The code that follows the wait the car was suspended at.
CarAfterHold(w, c) ==
    CASE w.cars[c].pc \in {"start", "idle_hold", "wait_hold", "exc_hold"} -> w
      [] w.cars[c].pc = "move_hold" -> CarMoved(w, c)
      [] w.cars[c].pc = "load_hold" -> set_status(w, c, "moving")
      [] w.cars[c].pc = "unload_hold" -> CarUnloaded(w, c)

\* The rest of the turn: nothing when the code after the wait ended at the
\* wait of the exception handler, else the loop up to the next wait.
CarResume(w, c, yielded) == IF yielded THEN w ELSE CarLoop(w, c)

\* One turn of the car's process.
CarTurn(w, c) ==
    CarResume(CarAfterHold(w, c), c,
              /\ w.cars[c].pc = "unload_hold"
              /\ StationDef[w.cars[c].target_unit].add_heat = "raise")

(***************************************************************************)
(* The system: construction, the agents' turns, and the calls from         *)
(* outside.                                                                *)
(***************************************************************************)
Cfg(n_bays, car_types, n_cranes_per_bay, ladle_car_speed, placed) ==
    [n_bays |-> n_bays, car_types |-> car_types, n_per_type |-> 1,
     n_cranes_per_bay |-> n_cranes_per_bay,
     ladle_car_speed |-> ladle_car_speed,
     crane_speed |-> CraneAccel,   \* one minute of acceleration
     placed |-> placed]

\* The plants TransportManager is built for.
SystemConfigs ==
    {Cfg(1, <<"tapping">>, 1, 32, p) : p \in BOOLEAN}
    \cup {Cfg(1, <<"treatment">>, 1, 32, p) : p \in BOOLEAN}
    \cup {Cfg(2, <<"tapping", "treatment">>, 1, 32, FALSE)}

\* The plants the cars are called directly in.
CarConfigs ==
    {Cfg(1, <<"tapping">>, 1, 32, p) : p \in BOOLEAN}
    \cup {Cfg(2, <<"tapping">>, 1, 32, FALSE)}

\* A plant whose tapping car stays idle while its treatment car works.
QueueConfigs == {Cfg(1, <<"tapping", "treatment">>, 1, 32, FALSE)}

\* A plant of two bays with one tapping car and as many treatment cars as
\* one run of _process_pending_requests may assign.
DrainConfigs ==
    {Cfg(2, <<"tapping">> \o [i \in 1..MaxDrain |-> "treatment"], 1, 32,
         FALSE)}

\* A crane on its own, and the configurations of the spatial manager.
CraneConfigs == {Cfg(1, <<>>, 1, 32, FALSE)}
PathConfigs == {Cfg(n, <<>>, 1, s, FALSE) : n \in 1..3, s \in {0, 16, 32}}

\* A plant without agents: they are constructed one by one.
BuildConfigs == {Cfg(1, <<>>, 0, 32, FALSE)}

\* Two bays with a pool of two cranes each.
PoolConfigs == {Cfg(2, <<>>, 2, 32, FALSE)}

\* Plants whose cranes serve other callers besides the car.
ShareConfigs == {Cfg(n, <<"tapping">>, 1, 32, FALSE) : n \in 1..2}

\* One bay with a single treatment car: no car of the tapping type.
LiveConfigs == {Cfg(1, <<"treatment">>, 1, 32, FALSE)}

NCranes(cfg) == cfg.n_bays * cfg.n_cranes_per_bay
CraneBay(cfg, k) == BayName(((k - 1) \div cfg.n_cranes_per_bay) + 1)

NoCall == [op |-> "none", n |-> 0, args |-> <<>>, ret |-> FALSE,
           raised |-> FALSE, ncb |-> 0]

\* The state after construction: every process is scheduled at time 0, the
\* cars (created first) before the cranes.
InitWith(cfgs) ==
    /\ config \in cfgs
    /\ now = 0
    /\ cars = [c \in 1..NCars(config) |-> NewCar(config, c)]
    /\ cranes = [k \in 1..NCranes(config) |->
                    NewCrane(config, CraneBay(config, k))]
    /\ pending = <<>>
    /\ requests = <<>>
    /\ stations = InitStations
    /\ events = [i \in 1..(NCars(config) + NCranes(config)) |->
                    IF i <= NCars(config)
                        THEN [time |-> 0, kind |-> "car", id |-> i]
                        ELSE [time |-> 0, kind |-> "crane",
                              id |-> i - NCars(config)]]
    /\ delivered = <<>>
    /\ lastCall = NoCall
    /\ hung = FALSE
    /\ drains = <<>>
    /\ turns = 0

Init == InitWith(SystemConfigs)
InitCar == InitWith(CarConfigs)
InitQueue == InitWith(QueueConfigs)
InitCrane == InitWith(CraneConfigs)
InitDrain == InitWith(DrainConfigs)
InitBuild == InitWith(BuildConfigs)
InitPool == InitWith(PoolConfigs)
InitShare == InitWith(ShareConfigs)
InitLive == InitWith(LiveConfigs)

\* A spatial manager on its own: no agents at all.
InitPath ==
    /\ config \in PathConfigs
    /\ now = 0
    /\ cars = <<>>
    /\ cranes = <<>>
    /\ pending = <<>>
    /\ requests = <<>>
    /\ stations = InitStations
    /\ events = <<>>
    /\ delivered = <<>>
    /\ lastCall = NoCall
    /\ hung = FALSE
    /\ drains = <<>>
    /\ turns = 0

Commit(w) ==
    /\ now' = w.now
    /\ cars' = w.cars
    /\ cranes' = w.cranes
    /\ pending' = w.pending
    /\ requests' = w.requests
    /\ stations' = w.stations
    /\ events' = w.events
    /\ delivered' = w.delivered
    /\ hung' = w.hung
    /\ drains' = w.drains
    /\ UNCHANGED config

\* The event loop hands control to the first scheduled agent.
NextEvent(kind, id) ==
    /\ ~hung
    /\ events # <<>>
    /\ Head(events).kind = kind
    /\ Head(events).id = id
    /\ Head(events).time <= MaxTime

Resumed == [World EXCEPT !.now = Head(events).time, !.events = Tail(events)]

CarProcess(c) ==
    /\ NextEvent("car", c)
    /\ Commit(CarTurn(Resumed, c))
    /\ turns' = 1 - turns
    /\ UNCHANGED lastCall

CraneProcess(k) ==
    /\ NextEvent("crane", k)
    /\ Commit(CraneTurn(Resumed, k))
    /\ turns' = 1 - turns
    /\ UNCHANGED lastCall

Called(op, args, ret, raised, w) ==
    lastCall' = [op |-> op, n |-> lastCall.n + 1, args |-> args, ret |-> ret,
                 raised |-> raised, ncb |-> w.ncb]

\* A call from outside has answered with r = [w, ret] or [w, ret, raised].
Returns(op, args, r) ==
    /\ Commit(r.w)
    /\ Called(op, args, r.ret,
              IF "raised" \in DOMAIN r THEN r.raised ELSE FALSE, r.w)
    /\ UNCHANGED turns

\* The places a request runs between, and the tasks handed to a crane.
RequestArgs ==
    {<<"EAF", "EAF">>, <<"EAF", "LMF">>, <<"EAF", "Degasser">>,
     <<"EAF", "Caster">>, <<"EAF", "RH">>, <<"RH", "RH">>, <<"Yard", "Yard">>}

\* The requests of a burst: same-bay moves, all for the treatment car.
BurstArgs == {<<"EAF", "EAF">>, <<"EAF", "LMF">>, <<"EAF", "RH">>}

TaskArgs ==
    {<<"EAF", "LMF">>, <<"LMF", "EAF">>, <<"EAF", "RH">>, <<"EAF", "Caster">>,
     <<"EAF", "VD">>, <<"EAF", "Stand">>, <<"VD", "LMF">>, <<"RH", "LMF">>, <<"Caster", "LMF">>,
     <<"Degasser", "LMF">>, <<None, "LMF">>, <<"EAF", None>>}

\* TransportManager.request_transport, called between two turns.
Submit(from_unit, to_unit, priority, max) ==
    /\ ~hung
    /\ Len(requests) < max
    /\ now <= MaxReqTime
    /\ Returns("request_transport", <<from_unit, to_unit, priority>>,
               request_transport(World, HeatNames[Len(requests) + 1],
                                 from_unit, to_unit, priority))

RequestTransport(from_unit, to_unit, priority) ==
    Submit(from_unit, to_unit, priority, MaxReq)

\* A burst may hold one request more.
BurstRequest(from_unit, to_unit, priority) ==
    Submit(from_unit, to_unit, priority, MaxReq + 1)

\* A backlog builds up behind tapping requests: the caller first asks for
\* moves to the other bay, all with priority 0, and then for moves within
\* the bay, the n-th request of the run with priority n.
BacklogRequest(to_unit) ==
    /\ now <= MaxBacklogTime
    /\ IF BayOf(to_unit) # BayOf("EAF")
           THEN /\ Len(requests) < MaxTapping
                /\ \A i \in DOMAIN requests :
                       requests[i].car_type = "tapping"
           ELSE Len(requests) >= 2
    /\ Submit("EAF", to_unit,
              IF BayOf(to_unit) # BayOf("EAF") THEN 0 ELSE Len(requests) + 1,
              MaxBacklog)

\* Crane.assign_task, called between two turns.
AssignTask(k, source, destination, priority) ==
    /\ ~hung
    /\ lastCall.n < MaxCalls
    /\ Returns("assign_task", <<k, source, destination, priority>>,
               assign_task(World, k, source, destination, priority))

\* BaseLadleCar.assign_heat, called between two turns.
AssignHeat(c, to_unit, fault) ==
    /\ ~hung
    /\ lastCall.n < MaxCalls
    /\ Returns("assign_heat", <<c, to_unit, fault>>,
               assign_heat(World, c, HeatNames[lastCall.n + 1],
                           [bay |-> BayOf(to_unit), unit |-> to_unit], fault))

\* TransportManager.request_crane, called between two turns.
RequestCrane(bay) ==
    /\ ~hung
    /\ lastCall.n < MaxCalls
    /\ Returns("request_crane", <<bay>>, request_crane(World, bay))

\* The component is activated: its process is scheduled at the current time.
activate(w, kind, id) == Schedule(w, kind, id, 0)

\* A constructor has answered with r = [raised, car] or [raised, crane]:
\* the agent it created joins the others and is activated.
Built(w, r) ==
    IF r.raised THEN w
    ELSE IF "car" \in DOMAIN r
        THEN activate([w EXCEPT !.cars = Append(@, r.car)], "car",
                      Len(w.cars) + 1)
        ELSE activate([w EXCEPT !.cranes = Append(@, r.crane)], "crane",
                      Len(w.cranes) + 1)

\* An agent is constructed between two turns.
Construct(op, args, r) ==
    /\ ~hung
    /\ lastCall.n < MaxBuilds
    /\ now <= MaxBuildTime
    /\ Returns(op, args,
               [w |-> Built(World, r), ret |-> ~r.raised, raised |-> r.raised])

\* BaseLadleCar(...), with the manager's drain routine as the idle callback.
CreateCar(car_type, home_bay, speed, spatial_manager) ==
    Construct("BaseLadleCar", <<car_type, home_bay, speed, spatial_manager>>,
              BaseLadleCar(config, car_type, home_bay, speed, spatial_manager))

\* Crane(...)
CreateCrane(bay, speed, spatial_manager) ==
    Construct("Crane", <<bay, bay, speed, spatial_manager>>,
              Crane(config, bay, speed, spatial_manager))

\* SpatialManager.get_path_between_bays.
GetPath(from_bay_id, to_bay_id, car_type) ==
    /\ lastCall.n < MaxCalls
    /\ Called("get_path_between_bays", <<from_bay_id, to_bay_id, car_type>>,
              get_path_between_bays(config, from_bay_id, to_bay_id, car_type),
              FALSE, World)
    /\ UNCHANGED <<now, config, cars, cranes, pending, requests, stations,
                   events, delivered, hung, drains, turns>>

Agents ==
    \/ \E c \in DOMAIN cars : CarProcess(c)
    \/ \E k \in DOMAIN cranes : CraneProcess(k)

Next ==
    \/ Agents
    \/ \E a \in RequestArgs, p \in 0..MaxPriority :
           RequestTransport(a[1], a[2], p)

NextQueue ==
    \/ Agents
    \/ \E a \in BurstArgs, p \in 0..MaxPriority :
           BurstRequest(a[1], a[2], p)

NextDrain ==
    \/ Agents
    \/ \E u \in {"Degasser", "LMF"} : BacklogRequest(u)

NextCrane ==
    \/ \E k \in DOMAIN cranes : CraneProcess(k)
    \/ \E k \in DOMAIN cranes, a \in TaskArgs, p \in 0..MaxPriority :
           AssignTask(k, a[1], a[2], p)

NextCar ==
    \/ Agents
    \/ \E c \in DOMAIN cars, u \in {"EAF", "RH", "Degasser"},
          f \in {"none", "no_path", "malformed"} : AssignHeat(c, u, f)

\* The speeds and the car types a caller constructs an agent with.
BuildSpeeds == {0 - 16, 0, 32}
BuildTypes == {"tapping", "RH", "torpedo"}

NextBuild ==
    \/ Agents
    \/ \E t \in BuildTypes, s \in BuildSpeeds, m \in BOOLEAN :
           CreateCar(t, "bay1", s, m)
    \/ \E s \in BuildSpeeds, m \in BOOLEAN : CreateCrane("bay1", s, m)

\* The tasks handed to the cranes of a pool, and the bays asked for a crane.
PoolTaskArgs == {<<"EAF", "LMF">>, <<"Degasser", "Degasser">>}
PoolBays == {"bay1", "bay2", "bay9"}

NextPool ==
    \/ \E k \in DOMAIN cranes : CraneProcess(k)
    \/ \E k \in DOMAIN cranes, a \in PoolTaskArgs : AssignTask(k, a[1], a[2], 0)
    \/ \E b \in PoolBays : RequestCrane(b)

\* A car is given heats while the cranes of the plant are given tasks by
\* other callers.
NextShare ==
    \/ Agents
    \/ \E c \in DOMAIN cars, u \in {"EAF", "Degasser"} : AssignHeat(c, u, "none")
    \/ \E k \in DOMAIN cranes, a \in PoolTaskArgs : AssignTask(k, a[1], a[2], 0)

\* The requests made of the plant with one treatment car: for a place
\* without a bay, for a move to the other bay, and for moves within the bay.
LiveArgs ==
    {<<"Yard", "Yard">>, <<"EAF", "Degasser">>, <<"EAF", "LMF">>,
     <<"EAF", "EAF">>}

NextLive ==
    \/ Agents
    \/ \E a \in LiveArgs, p \in 0..MaxPriority :
           RequestTransport(a[1], a[2], p)

NextPath ==
    \E f, t \in {"bay1", "bay2", "bay3", "bay9"},
       ct \in {"tapping", "treatment", "rh", None} : GetPath(f, t, ct)

Spec == Init /\ [][Next]_vars
SpecQueue == InitQueue /\ [][NextQueue]_vars
SpecDrain == InitDrain /\ [][NextDrain]_vars
SpecCrane == InitCrane /\ [][NextCrane]_vars
SpecCar == InitCar /\ [][NextCar]_vars
SpecBuild == InitBuild /\ [][NextBuild]_vars
SpecPool == InitPool /\ [][NextPool]_vars
SpecShare == InitShare /\ [][NextShare]_vars
SpecPath == InitPath /\ [][NextPath]_vars

\* env.run() gives a turn: a step of Agents, and no other step, is one.
Scheduled == ~hung /\ events # <<>> /\ Head(events).time <= MaxTime
GivesTurn == Scheduled /\ turns' = 1 - turns

\* The event loop of env.run() always resumes the first scheduled agent;
\* nothing obliges a caller to make a request.
SpecLive == InitLive /\ [][NextLive]_vars /\ WF_turns(GivesTurn)

(***************************************************************************)
(* Properties.                                                             *)
(***************************************************************************)
CalledOp(op) == lastCall.op = op

\* A call of get_path_between_bays on two bays the spatial manager knows.
KnownBaysCall ==
    /\ CalledOp("get_path_between_bays")
    /\ lastCall.args[1] \in Bays(config)
    /\ lastCall.args[2] \in Bays(config)

\* The segments lead from a to b without a gap.
Contiguous(path, a, b) ==
    /\ path[1].from = a
    /\ path[Len(path)].to = b
    /\ \A i \in 1..(Len(path) - 1) : path[i].to = path[i + 1].from

\* What C9 says of the path returned by the last call.
PathShape ==
    LET a == bay_centers(lastCall.args[1])
        b == bay_centers(lastCall.args[2])
        path == lastCall.ret
        car_type == lastCall.args[3]
    IN  /\ car_type \in {"tapping", "treatment"} =>
               /\ Len(path) = 2
               /\ path[1].to = Pos(b.x, a.y)
               /\ Contiguous(path, a, b)
        /\ car_type = "rh" =>
               /\ Len(path) = 1
               /\ Contiguous(path, a, b)

\* C9, as stated: for any two known bays (the same bay twice included),
\* get_path_between_bays returns exactly 2 segments for tapping and
\* treatment cars, an L through (destination x, source y), and exactly 1
\* segment for rh cars, contiguous from the source bay's centre to the
\* destination bay's centre.
C9_PathShapeAnySpeed == KnownBaysCall => PathShape

\* C9, amended: the same, when the configured ladle_car_speed is positive
\* (with a speed of 0 or less the function returns None).
C9_PathShape == KnownBaysCall /\ config.ladle_car_speed > 0 => PathShape

\* A tapping car's path between two bays that differ in x and in y.
C9_Witness ==
    /\ KnownBaysCall
    /\ config.ladle_car_speed > 0
    /\ lastCall.args = <<"bay1", "bay3", "tapping">>
    /\ Len(lastCall.ret) = 2
    /\ lastCall.ret[1].to = Pos(144, 60)

\* This step is a call of op from outside.
CallStep(op) == lastCall'.n = lastCall.n + 1 /\ lastCall'.op = op

\* This step is a turn of the agent's process.
TurnOf(kind, id) ==
    /\ events # <<>>
    /\ Head(events).kind = kind
    /\ Head(events).id = id
    /\ events' # events

Count(q, e) == Cardinality({i \in 1..Len(q) : q[i] = e})

\* What C5 says of a call assign_task(source, destination, priority) on
\* crane k, from the crane before the call to the crane after it.
QueuedOnly(k, source, destination, priority) ==
    LET c == cranes[k]
        d == cranes'[k]
        e == Entry(<<0 - priority, LocRank(source), LocRank(destination)>>,
                   <<source, destination>>)
    IN  /\ lastCall'.ret = 0
        /\ Len(d.task_queue) = Len(c.task_queue) + 1
        /\ \A i \in 1..Len(d.task_queue) :
               Count(d.task_queue, d.task_queue[i])
                   = Count(c.task_queue, d.task_queue[i])
                     + (IF d.task_queue[i] = e THEN 1 ELSE 0)
        /\ d.state = c.state
        /\ d.source = c.source
        /\ d.destination = c.destination
        /\ d.current_ladle = c.current_ladle
        /\ d.current_heat = c.current_heat

Busy(c) == c.state # "idle" \/ c.task_queue # <<>>

\* C5, as stated: assign_task on a crane that is not Idle, or that has
\* queued tasks, always returns 0, appends exactly one entry to the task
\* queue, and leaves state, source, destination, ladle and heat unchanged.
C5_BusyCraneQueuesAnyArgs ==
    [][CallStep("assign_task") /\ Busy(cranes[lastCall'.args[1]]) =>
           QueuedOnly(lastCall'.args[1], lastCall'.args[2],
                      lastCall'.args[3], lastCall'.args[4])]_vars

\* C5, amended: the same, for a call that names a source and a destination
\* (a call with source or destination None returns 0 and queues nothing).
C5_BusyCraneQueues ==
    [][/\ CallStep("assign_task")
       /\ Busy(cranes[lastCall'.args[1]])
       /\ lastCall'.args[2] # None
       /\ lastCall'.args[3] # None
       => QueuedOnly(lastCall'.args[1], lastCall'.args[2],
                     lastCall'.args[3], lastCall'.args[4])]_vars

\* A moving crane that has just queued a task.
C5_Witness ==
    /\ CalledOp("assign_task")
    /\ lastCall.ret = 0
    /\ lastCall.args[2] # None /\ lastCall.args[3] # None
    /\ cranes[lastCall.args[1]].state = "moving"
    /\ Len(cranes[lastCall.args[1]].task_queue) = 1
    /\ cranes[lastCall.args[1]].task_queue[1].val
           = <<lastCall.args[2], lastCall.args[3]>>

CraneStates == {"idle", "moving", "lifting", "lowering", "error"}

\* C8: at every instant each crane's state is one of Idle, Moving, Lifting,
\* Lowering, Error; busy_time never decreases, and it does not increase in
\* a turn that ends with the crane Idle.
C8_StateAndBusyTime ==
    /\ [](\A k \in DOMAIN cranes : cranes[k].state \in CraneStates)
    /\ [][\A k \in DOMAIN cranes :
              /\ cranes'[k].busy_time >= cranes[k].busy_time
              /\ cranes'[k].state = "idle" =>
                     cranes'[k].busy_time = cranes[k].busy_time]_vars

\* A crane back in Idle after it has been busy.
C8_Witness ==
    \E k \in DOMAIN cranes :
        /\ cranes[k].state = "idle"
        /\ cranes[k].busy_time > 0
        /\ cranes[k].task_count > 0

\* The pick-up at this source raises: no unit stands there, or the unit has
\* no current_ladle attribute, or reading the attribute raises.
LiftRaises(source) ==
    \/ find_unit(source) = None
    \/ StationDef[find_unit(source)].ladle_attr \in {"missing", "raise"}

Cleared(c) ==
    /\ c.source = None
    /\ c.destination = None
    /\ c.current_ladle = None
    /\ c.current_heat = None

\* C7: when an exception is raised in a crane's Lifting phase, the crane's
\* state becomes Error with error_count one more than before; from Error
\* it goes, after the cooldown, to Idle (an idle crane with an empty queue
\* stays Idle) with source, destination, ladle and heat cleared and
\* error_count still that one more.
C7_LiftingErrorRecovers ==
    [][\A k \in DOMAIN cranes :
          /\ (/\ TurnOf("crane", k)
              /\ cranes[k].pc = "lifting_hold"
              /\ LiftRaises(cranes[k].source))
             => /\ cranes'[k].state = "error"
                /\ cranes'[k].error_count = cranes[k].error_count + 1
          /\ (cranes[k].state = "error" /\ cranes[k].task_queue = <<>>)
             => /\ cranes'[k].state \in {"error", "idle"}
                /\ cranes'[k].error_count = cranes[k].error_count
                /\ cranes'[k].state = "idle" => Cleared(cranes'[k])]_vars

\* C4: assign_heat on a car that is Loading, Moving or Unloading returns
\* false, leaves every field of the car as it was (status, current_heat,
\* destination, path, current_path_segment, current_bay, position,
\* total_distance_traveled among them) and triggers no idle callback.
C4_BusyCarRejects ==
    [][CallStep("assign_heat")
       /\ cars[lastCall'.args[1]].status \in {"loading", "moving", "unloading"}
       => /\ lastCall'.ret = FALSE
          /\ cars'[lastCall'.args[1]] = cars[lastCall'.args[1]]
          /\ lastCall'.ncb = 0]_vars

\* A call that was refused for no other reason than the car being at work:
\* the path to the destination is good.
C4_Witness ==
    /\ CalledOp("assign_heat")
    /\ lastCall.ret = FALSE
    /\ lastCall.args[3] = "none"
    /\ BayOf(lastCall.args[2]) \in Bays(config)
    /\ cars[lastCall.args[1]].status = "unloading"
    /\ cars[lastCall.args[1]].current_heat # None

\* The call's path is missing, empty or malformed.
BadPath(to_unit, fault) ==
    fault \in {"no_path", "malformed"} \/ BayOf(to_unit) \notin Bays(config)

\* C6: assign_heat on an Idle car whose path to the destination bay is
\* missing, empty or has a segment without travel_time returns false and
\* leaves the car Idle with current_heat and destination cleared.
C6_BadPathRejected ==
    [][CallStep("assign_heat")
       /\ cars[lastCall'.args[1]].status = "idle"
       /\ BadPath(lastCall'.args[2], lastCall'.args[3])
       => /\ lastCall'.ret = FALSE
          /\ cars'[lastCall'.args[1]].status = "idle"
          /\ cars'[lastCall'.args[1]].current_heat = None
          /\ cars'[lastCall'.args[1]].destination = NoDest]_vars

\* An idle car's first call, refused for a segment without travel_time.
C6_Witness ==
    /\ CalledOp("assign_heat")
    /\ lastCall.n = 1
    /\ lastCall.args[3] = "malformed"
    /\ lastCall.ret = FALSE
    /\ cars[lastCall.args[1]].status = "idle"
    /\ cars[lastCall.args[1]].path # <<>>
    /\ cars[lastCall.args[1]].current_heat = None

\* The plant of scenario 1: one bay, one crane, and one car of this type.
Scenario1(car_type) ==
    /\ config.n_bays = 1
    /\ config.n_cranes_per_bay = 1
    /\ config.car_types = <<car_type>>

StatusCycle == <<"idle", "loading", "moving", "unloading", "idle">>

IsPrefix(s, t) == Len(s) <= Len(t) /\ \A i \in 1..Len(s) : s[i] = t[i]

\* Scenario 1 for a car of this type: request_transport(heat, u, u, 0) for
\* a station u of the bay, made while the car and the crane are idle,
\* assigns the request inside the call, and the car's statuses from then on
\* follow Idle, Loading, Moving, Unloading, Idle.
DirectAssignmentStep(car_type) ==
    /\ CallStep("request_transport")
    /\ Scenario1(car_type)
    /\ requests = <<>>
    /\ cars[1].status = "idle"
    /\ crane_is_available(cranes[1])
    /\ lastCall'.args[1] = lastCall'.args[2]
    /\ BayOf(lastCall'.args[1]) = "bay1"
    /\ lastCall'.args[3] = 0
    => /\ requests'[1].status = "assigned"
       /\ pending' = <<>>
       /\ cars'[1].status = "loading"
       /\ cars'[1].current_heat = requests'[1].heat

DirectAssignmentTrace(car_type) ==
    /\ Scenario1(car_type)
    /\ Len(requests) = 1
    /\ requests[1].from_unit = requests[1].to_unit
    /\ requests[1].from_bay = "bay1"
    /\ requests[1].priority = 0
    => IsPrefix(cars[1].trace, StatusCycle)

\* C1, as stated: scenario 1 with a fleet whose only car is a Tapping car.
C1_DirectAssignmentTapping ==
    /\ [][DirectAssignmentStep("tapping")]_vars
    /\ []DirectAssignmentTrace("tapping")

\* C1, amended: scenario 1 with a fleet whose only car is a Treatment car,
\* the type request_transport requires for a move within one bay.
C1_DirectAssignment ==
    /\ [][DirectAssignmentStep("treatment")]_vars
    /\ []DirectAssignmentTrace("treatment")

\* The treatment car is back in Idle after it has delivered the heat.
C1_Witness ==
    /\ Scenario1("treatment")
    /\ Len(requests) = 1
    /\ requests[1].from_unit = "EAF" /\ requests[1].to_unit = "EAF"
    /\ requests[1].priority = 0
    /\ requests[1].time_requested = 0
    /\ requests[1].status = "assigned"
    /\ cars[1].trace = StatusCycle
    /\ Len(delivered) = 1
    /\ delivered[1].heat = requests[1].heat

\* No request so far is for a unit whose add_heat is missing or raises.
FailureFree ==
    \A i \in DOMAIN requests :
        StationDef[requests[i].to_unit].add_heat \in {"ok", "refuse"}

\* The add_heat calls car c has made with the heat of its last assignment.
JobDeliveries(c) ==
    {i \in DOMAIN delivered : /\ delivered[i].car = c
                              /\ delivered[i].heat = cars[c].job.heat}

\* C2: with no failure injected, for every heat a car has accepted through
\* assign_heat for a unit that supports add_heat, the unit's add_heat is
\* invoked exactly once with that heat before the car is Idle again; it is
\* never invoked twice for one assignment, nor with another heat.
C2_DeliveredOnce ==
    FailureFree =>
        /\ \A c \in DOMAIN cars :
               cars[c].job.heat # None =>
                   /\ Cardinality(JobDeliveries(c)) <= 1
                   /\ cars[c].status = "idle" =>
                          Cardinality(JobDeliveries(c)) = 1
                   /\ \A i \in JobDeliveries(c) :
                          delivered[i].unit = cars[c].job.unit
        /\ \A i \in DOMAIN delivered :
               \E r \in DOMAIN requests :
                   /\ requests[r].heat = delivered[i].heat
                   /\ requests[r].to_unit = delivered[i].unit
                   /\ requests[r].assigned_car = delivered[i].car
        /\ \A i, j \in DOMAIN delivered :
               i # j => delivered[i].heat # delivered[j].heat

\* A car that is Idle again after it has handed its heat over.
C2_Witness ==
    /\ FailureFree
    /\ \E c \in DOMAIN cars :
           /\ cars[c].status = "idle"
           /\ cars[c].job.heat # None
           /\ cars[c].current_heat = None
           /\ Cardinality(JobDeliveries(c)) = 1

CarsOfType(car_type) == {c \in DOMAIN cars : cars[c].car_type = car_type}

\* The only car of this type.
TheCar(car_type) == CHOOSE c \in CarsOfType(car_type) : TRUE

KnownBay(bay) == bay \in Bays(config)

\* Scenario 2, the first request: it is submitted while exactly one car of
\* its type is idle, and it is assigned inside the call.
FirstAssignedAtOnce(known) ==
    /\ CallStep("request_transport")
    /\ requests = <<>>
    /\ Cardinality({c \in CarsOfType(requests'[1].car_type) :
                       cars[c].status = "idle"}) = 1
    /\ known => KnownBay(requests'[1].to_bay)
    => /\ requests'[1].status = "assigned"
       /\ requests'[1].assigned_car = TheCar(requests'[1].car_type)

\* Scenario 2, the second request: across a step in which the one car of
\* the type is not Idle and does not pass through Idle, it is or stays
\* pending and in the queue.
SecondStaysPending ==
    /\ Len(requests') = 2
    /\ requests'[1].car_type = requests'[2].car_type
    /\ Cardinality(CarsOfType(requests'[1].car_type)) = 1
    /\ requests'[1].order = 1
    /\ Len(requests) = 1 \/ requests[2].status = "pending"
    /\ LET c == TheCar(requests'[1].car_type)
       IN  /\ cars[c].status # "idle"
           /\ cars'[c].n_idle = cars[c].n_idle
    => /\ requests'[2].status = "pending"
       /\ \E i \in DOMAIN pending' : pending'[i].val = 2

\* Scenario 2, the hand-over: in the step in which the car becomes Idle the
\* pending second request is assigned to it, and no call is made.
SecondAssignedOnIdle(known) ==
    /\ Len(requests) = 2
    /\ requests[1].car_type = requests[2].car_type
    /\ Cardinality(CarsOfType(requests[1].car_type)) = 1
    /\ requests[1].status = "assigned"
    /\ requests[2].status = "pending"
    /\ LET c == TheCar(requests[1].car_type)
       IN  cars'[c].n_idle > cars[c].n_idle
    /\ known => KnownBay(requests[2].to_bay)
    => /\ requests'[2].status = "assigned"
       /\ requests'[2].assigned_car = TheCar(requests[1].car_type)
       /\ \A i \in DOMAIN pending' : pending'[i].val # 2
       /\ lastCall' = lastCall

\* C3, as stated: whatever the destinations of the two requests.
C3_QueuedUntilIdleAnyBay ==
    /\ [][FirstAssignedAtOnce(FALSE)]_vars
    /\ [][SecondStaysPending]_vars
    /\ [][SecondAssignedOnIdle(FALSE)]_vars

\* C3, amended: scenario 2 for requests whose destination bays are bays of
\* the plant. The first request is assigned at once, the second stays
\* pending while the car is not Idle, and the step in which the car next
\* becomes Idle assigns it through the idle callback, with no call to
\* request_transport.
C3_QueuedUntilIdle ==
    /\ [][FirstAssignedAtOnce(TRUE)]_vars
    /\ [][SecondStaysPending]_vars
    /\ [][SecondAssignedOnIdle(TRUE)]_vars

\* The second request was assigned, after a wait, to the car that had
\* carried the first.
C3_Witness ==
    /\ Len(requests) = 2
    /\ requests[1].car_type = requests[2].car_type
    /\ requests[1].order = 1 /\ requests[2].order = 2
    /\ requests[1].time_requested = requests[2].time_requested
    /\ LET c == TheCar(requests[1].car_type)
       IN  /\ requests[2].assigned_car = c
           /\ cars[c].n_idle >= 1
           /\ cars[c].job.heat = requests[2].heat
           /\ cars[c].status = "loading"
           /\ now > requests[2].time_requested
    /\ lastCall.n = 2

\* C10: among requests of equal priority, a request submitted earlier is
\* never assigned after one submitted later.
C10_SubmissionOrder ==
    \A i, j \in DOMAIN requests :
        /\ i < j
        /\ requests[i].priority = requests[j].priority
        /\ requests[i].order > 0
        /\ requests[j].order > 0
        => requests[i].order < requests[j].order

\* Request i is waiting in the pending queue.
InQueue(q, i) == \E n \in DOMAIN q : q[n].val = i

Waiting(i) == requests[i].status = "pending" /\ InQueue(pending, i)

\* C11: a pending request with a higher priority value is more important:
\* of two requests that are pending together, the one with the lower
\* priority value is never assigned while the one with the higher value is
\* still waiting, whatever their submission times.
C11_HigherPriorityFirst ==
    [][\A i, j \in DOMAIN requests :
          /\ Waiting(i) /\ Waiting(j)
          /\ requests[i].priority > requests[j].priority
          /\ requests'[j].status = "assigned"
          => /\ requests'[i].status = "assigned"
             /\ requests'[i].order < requests'[j].order]_vars

\* The run d of _process_pending_requests began with a request at the head
\* of the queue for whose car type no car was idle.
HeadBlocked(d) ==
    \A c \in d.idle : cars[c].car_type # requests[d.head].car_type

\* A request that waited behind the head of run d had an idle car.
LaterServable(d) ==
    \E i \in d.before \ {d.head} :
        \E c \in d.idle : cars[c].car_type = requests[i].car_type

\* C12: head-of-line blocking.  In a run of _process_pending_requests that
\* finds no idle car of the type the request at the head of the queue
\* requires, that request is put back and no request is assigned, even when
\* a later request of another type has an idle car; the set of pending
\* requests is the same after the run as before it.
C12_HeadOfLineBlocking ==
    \A n \in DOMAIN drains :
        HeadBlocked(drains[n]) =>
            /\ drains[n].assigned = {}
            /\ drains[n].after = drains[n].before
            /\ requests[drains[n].head].status = "pending"

\* The blocked runs in which no heap operation raises.
BlockedRun ==
    \E n \in DOMAIN drains :
        /\ HeadBlocked(drains[n])
        /\ LaterServable(drains[n])
        /\ ~drains[n].raised
        /\ drains[n].assigned = {}
        /\ drains[n].after = drains[n].before

\* C13: one run of _process_pending_requests makes at most MaxDrain (10)
\* successful assignments, however many requests are pending and however
\* many cars are idle; the requests it does not assign stay pending, in the
\* queue, for a later run.
C13_BoundedDrain ==
    \A n \in DOMAIN drains :
        /\ Cardinality(drains[n].assigned) <= MaxDrain
        /\ ~drains[n].raised =>
               /\ drains[n].after = drains[n].before \ drains[n].assigned
               /\ \A i \in drains[n].after : requests[i].status = "pending"

\* A run that stopped at the limit and left a request pending for which a
\* car is idle.
C13_Witness ==
    \E n \in DOMAIN drains :
        /\ Cardinality(drains[n].assigned) = MaxDrain
        /\ \E i \in drains[n].after :
               /\ requests[i].status = "pending"
               /\ \E c \in DOMAIN cars :
                      /\ cars[c].status = "idle"
                      /\ cars[c].car_type = requests[i].car_type

\* The three kinds of move request_transport tells apart.
MoveKind(r) ==
    IF StationDef[r.to_unit].caster THEN "caster"
    ELSE IF r.from_bay # r.to_bay THEN "cross-bay" ELSE "same-bay"

\* C14: request_transport infers three different car types, one for
\* cross-bay moves, a second for same-bay moves and a third for requests
\* whose destination is a caster: two requests of different kinds never
\* require the same car type.
C14_ThreeCarTypes ==
    \A i, j \in DOMAIN requests :
        MoveKind(requests[i]) # MoveKind(requests[j])
            => requests[i].car_type # requests[j].car_type

\* C15: request_transport never surfaces an error to its caller: every
\* call returns True, and when it has returned the request is either in
\* the pending queue with status pending or assigned to exactly one car.
C15_NeverRaises ==
    [][CallStep("request_transport") =>
          /\ ~lastCall'.raised
          /\ lastCall'.ret = TRUE
          /\ LET r == requests'[Len(requests')]
             IN  \/ /\ r.status = "pending"
                    /\ InQueue(pending', Len(requests'))
                 \/ /\ r.status = "assigned"
                    /\ {c \in DOMAIN cars' : cars'[c].current_heat = r.heat}
                           = {r.assigned_car}]_vars

\* In this step car c's process finds its path or its target unit invalid.
Detects(c) == cars'[c].n_fault > cars[c].n_fault

C17_IdleHasNoHeat ==
    \A c \in DOMAIN cars :
        cars[c].status = "idle" => cars[c].current_heat = None

\* C18: in every reachable state of a crane, state # Idle implies that
\* source and destination are both set; this holds in Moving, Lifting,
\* Lowering and Error alike, the Error cooldown included.
C18_BusyHasTask ==
    \A k \in DOMAIN cranes :
        cranes[k].state # "idle" =>
            cranes[k].source # None /\ cranes[k].destination # None

\* In this turn crane k's process comes to the top of its loop in the Idle
\* state: it was Idle already, or the code after the wait it is suspended
\* at sets Idle (the end of the lowering, of the recovery from an error, of
\* the wait of the outer handler, or a pick-up that finds no ladle).
ReachesIdle(k) ==
    /\ TurnOf("crane", k)
    /\ \/ cranes[k].state = "idle"
       \/ cranes[k].pc \in {"error_hold", "crit_hold"}
       \/ /\ cranes[k].pc = "lowering_hold"
          /\ find_unit(cranes[k].destination) # None
       \/ /\ cranes[k].pc = "lifting_hold"
          /\ ~LiftRaises(cranes[k].source)
          /\ stations[find_unit(cranes[k].source)].current_ladle = None

\* The entries of a task queue with the highest priority value.
Top(q) == {n \in DOMAIN q : \A m \in DOMAIN q : q[n].key[1] <= q[m].key[1]}

\* C19: idle with queue.  Whenever a crane is Idle with one or more tasks
\* in its queue, its turn removes the task of the highest priority from the
\* queue, leaving the rest, and puts the crane in Moving with that task's
\* source and destination, provided both lie in the crane's bay.
C19_IdleWithQueue ==
    [][\A k \in DOMAIN cranes :
          /\ ReachesIdle(k)
          /\ cranes[k].task_queue # <<>>
          /\ \A n \in Top(cranes[k].task_queue) :
                 /\ is_in_bay(cranes[k], cranes[k].task_queue[n].val[1])
                 /\ is_in_bay(cranes[k], cranes[k].task_queue[n].val[2])
          => /\ ~hung'
             /\ cranes'[k].state = "moving"
             /\ Len(cranes'[k].task_queue) = Len(cranes[k].task_queue) - 1
             /\ \E n \in Top(cranes[k].task_queue) :
                    /\ cranes'[k].source = cranes[k].task_queue[n].val[1]
                    /\ cranes'[k].destination = cranes[k].task_queue[n].val[2]
                    /\ \A e \in {cranes[k].task_queue[m] :
                                    m \in DOMAIN cranes[k].task_queue} :
                           Count(cranes'[k].task_queue, e)
                               = Count(cranes[k].task_queue, e)
                                 - (IF e = cranes[k].task_queue[n]
                                        THEN 1 ELSE 0)]_vars

\* The entry assign_task(source, destination, priority) queues.
QueuedTask(source, destination, priority) ==
    Entry(<<0 - priority, LocRank(source), LocRank(destination)>>,
          <<source, destination>>)

\* The entry the call of this step queues on crane k, if it is one.
NewlyQueued(k, e) ==
    /\ CallStep("assign_task")
    /\ lastCall'.args[1] = k
    /\ lastCall'.args[2] # None
    /\ lastCall'.args[3] # None
    /\ e = QueuedTask(lastCall'.args[2], lastCall'.args[3], lastCall'.args[4])

\* C20: the tasks queued on a crane are started in descending order of the
\* priority value passed to assign_task, and a queued task keeps the
\* priority it was queued with until it is started: a turn that starts a
\* task from the queue starts one of the highest priority, and a task is
\* in the queue with no other priority than the one it was queued with.
C20_PriorityOrder ==
    [][\A k \in DOMAIN cranes :
          /\ TurnOf("crane", k) /\ cranes'[k].task_count > cranes[k].task_count
             => \E n \in Top(cranes[k].task_queue) :
                    cranes[k].task_queue[n].val
                        = <<cranes'[k].source, cranes'[k].destination>>
          /\ \A n \in DOMAIN cranes'[k].task_queue :
                 LET e == cranes'[k].task_queue[n]
                 IN  Count(cranes'[k].task_queue, e)
                         <= Count(cranes[k].task_queue, e)
                            + (IF NewlyQueued(k, e) THEN 1 ELSE 0)]_vars

\* What C21 says of a call assign_task(source, destination, priority) on
\* crane k, from the crane before the call to the crane after it.
IdleAssignment(k, source, destination) ==
    LET c == cranes[k]
        d == cranes'[k]
    IN  IF \/ ~is_unit_in_bay(config, source, c.bay)
           \/ ~is_unit_in_bay(config, destination, c.bay)
            THEN /\ lastCall'.ret = 0
                 /\ d = c
            ELSE /\ d.source = source
                 /\ d.destination = destination
                 /\ d.state = "moving"
                 /\ lastCall'.ret =
                        calculate_movement_time(
                            c.position, get_unit_position(config, source))
                        + Ticks(TASK_OVERHEAD)
                 /\ lastCall'.ret > 0

ConfigError(op, args) ==
    \/ op = "BaseLadleCar" /\ Lower(args[1]) \notin valid_types
    \/ ~(args[3] > 0)
    \/ ~args[4]

ConstructorStep == CallStep("BaseLadleCar") \/ CallStep("Crane")

\* C22: configuration errors are fatal at construction for both agent
\* kinds: constructing a Car or a Crane with an invalid car type, a
\* non-positive speed, or no spatial service fails with an error, and no
\* agent is created or activated.
C22_ConfigErrorsFatal ==
    [][ConstructorStep /\ ConfigError(lastCall'.op, lastCall'.args) =>
           /\ lastCall'.raised
           /\ cars' = cars
           /\ cranes' = cranes
           /\ events' = events]_vars

\* The configuration errors the constructors do reject: a car type that is
\* not valid for a car, a speed that is not positive for a crane.
RejectedConfigErrors ==
    [][/\ ConstructorStep
       /\ \/ /\ lastCall'.op = "BaseLadleCar"
             /\ Lower(lastCall'.args[1]) \notin valid_types
          \/ lastCall'.op = "Crane" /\ ~(lastCall'.args[3] > 0)
       => /\ lastCall'.raised
          /\ cars' = cars
          /\ cranes' = cranes
          /\ events' = events]_vars

\* The cranes of this bay that are Idle with an empty task queue.
AvailableIn(bay) ==
    {k \in DOMAIN cranes : cranes[k].bay = bay /\ ~Busy(cranes[k])}

\* C23: a crane request for a bay returns the first crane, in pool order,
\* that is Idle with an empty task queue, and none when the bay is unknown
\* or no crane of the bay is available; it never returns a crane of another
\* bay or a crane that is busy or has queued tasks, and it changes no crane
\* or dispatcher state.
C23_FirstAvailableCrane ==
    [][CallStep("request_crane") =>
          /\ ~lastCall'.raised
          /\ IF AvailableIn(lastCall'.args[1]) = {}
                 THEN lastCall'.ret = 0
                 ELSE /\ lastCall'.ret \in AvailableIn(lastCall'.args[1])
                      /\ \A k \in AvailableIn(lastCall'.args[1]) :
                             lastCall'.ret <= k
          /\ UNCHANGED <<cranes, cars, pending, requests, events>>]_vars

\* The requests for a crane that find none: they return None and change
\* nothing.
NoCraneFound ==
    [][CallStep("request_crane") /\ AvailableIn(lastCall'.args[1]) = {} =>
          /\ ~lastCall'.raised
          /\ lastCall'.ret = 0
          /\ UNCHANGED <<cranes, cars, pending, requests, events>>]_vars

\* A request in a bay whose two cranes are both at work has returned None.
NoCraneFoundSeen ==
    /\ CalledOp("request_crane")
    /\ ~lastCall.raised
    /\ lastCall.args[1] = "bay1"
    /\ \A k \in DOMAIN cranes : cranes[k].bay = "bay1" => Busy(cranes[k])

\* The distance between the centres of two bays; an unknown bay counts as
\* standing at the origin.
BayDistance(a, b) ==
    Distance(get_bay_position(config, a), get_bay_position(config, b))

\* The cars that run d had already given a request when it assigned i.
TakenBefore(d, i) ==
    {requests[j].assigned_car :
        j \in {n \in d.assigned : requests[n].order < requests[i].order}}

\* The idle cars of the required type that run d could choose from for i.
Candidates(d, i) ==
    {c \in d.idle \ TakenBefore(d, i) :
        cars[c].car_type = requests[i].car_type}

Nearer(c, x, bay) ==
    \/ BayDistance(cars[c].current_bay, bay) < BayDistance(cars[x].current_bay, bay)
    \/ /\ BayDistance(cars[c].current_bay, bay) = BayDistance(cars[x].current_bay, bay)
       /\ c <= x

\* C24: when the drain routine assigns a request, the car it calls
\* assign_heat on is idle, is of the request's required type, and has the
\* minimum bay-to-bay distance from its current bay to the request's origin
\* bay among all idle cars of that type (the first such car in fleet order
\* on a tie).
C24_ClosestIdleCar ==
    \A n \in DOMAIN drains :
        \A i \in drains[n].assigned :
            /\ requests[i].assigned_car \in Candidates(drains[n], i)
            /\ \A x \in Candidates(drains[n], i) :
                   Nearer(requests[i].assigned_car, x, requests[i].from_bay)

\* A run has given a request to a car in the request's origin bay although
\* a car of the same type, earlier in the fleet, was idle in another bay.
C24_Witness ==
    \E n \in DOMAIN drains :
        \E i \in drains[n].assigned :
            \E x \in Candidates(drains[n], i) :
                /\ x < requests[i].assigned_car
                /\ cars[x].current_bay # requests[i].from_bay
                /\ cars[requests[i].assigned_car].current_bay
                       = requests[i].from_bay

\* The phase of crane c: its state, and whether it carries a ladle.
Carrying(c) == c.current_ladle # None

\* What C25 says of a step, from crane c before it to crane d after it.
PhaseOrder(c, d) ==
    /\ c.state = "moving" /\ d.state # "moving" =>
           d.state = IF Carrying(c) THEN "lowering" ELSE "lifting"
    /\ c.state = "lifting" /\ d.state = "moving" =>
           \/ Carrying(d) /\ d.task_count = c.task_count
           \/ /\ ~Carrying(d)   \* no ladle found: through Idle, to the next task
              /\ d.task_count = c.task_count + 1
    /\ c.state = "lifting" => d.state # "lowering"
    /\ c.state = "lowering" /\ d.state # "lowering" =>
           \/ d.state \in {"idle", "error"}
           \/ /\ d.state = "moving"     \* through Idle, to the next task
              /\ ~Carrying(d)
              /\ d.task_count = c.task_count + 1
    /\ c.state \in {"idle", "error"} => d.state \in {"idle", "error", "moving"}
    /\ c.state # "moving" /\ d.state = "moving" /\ ~Carrying(d) =>
           d.task_count = c.task_count + 1

\* C25: when a crane completes its Moving phase it goes to Lifting if it
\* carries no ladle and to Lowering if it carries one; within one task the
\* phases follow each other in the order Moving, Lifting, Moving, Lowering,
\* Idle, and the crane is never in Lowering without a ladle or in Lifting
\* with one.
C25_PhaseOrder ==
    /\ [](\A k \in DOMAIN cranes :
              /\ cranes[k].state = "lowering" => Carrying(cranes[k])
              /\ cranes[k].state = "lifting" => ~Carrying(cranes[k]))
    /\ [][\A k \in DOMAIN cranes : PhaseOrder(cranes[k], cranes'[k])]_vars

\* A crane is Idle again after one task that took the ladle from the EAF
\* to the LMF.
C25_Witness ==
    \E k \in DOMAIN cranes :
        /\ cranes[k].state = "idle"
        /\ cranes[k].task_count = 1
        /\ cranes[k].error_count = 0
        /\ ~Carrying(cranes[k])
        /\ stations["EAF"].current_ladle = None
        /\ stations["LMF"].current_ladle = "L1"

\* This step is the turn in which crane k, in Lifting, asks the unit at its
\* source for the ladle, and the unit answers.
PickUp(k) ==
    /\ TurnOf("crane", k)
    /\ cranes[k].pc = "lifting_hold"
    /\ ~LiftRaises(cranes[k].source)

\* The turn has started the next task from the queue: the crane was Idle
\* with no task when assign_task accepted it.
NextTaskStarted(c, d) ==
    /\ d.state = "moving"
    /\ d.task_count = c.task_count + 1
    /\ Len(d.task_queue) = Len(c.task_queue) - 1
    /\ \E n \in DOMAIN c.task_queue :
           c.task_queue[n].val = <<d.source, d.destination>>

\* What C26 says of a pick-up by crane c (d after the turn) at unit u.
PickUpOutcome(c, d, u) ==
    IF stations[u].current_ladle = None
        THEN /\ d.error_count = c.error_count
             /\ d.state # "error"
             /\ ~Carrying(d)
             /\ d.current_heat = None
             /\ \/ d.state = "idle" /\ d.source = None /\ d.destination = None
                \/ NextTaskStarted(c, d)
        ELSE /\ stations'[u].current_ladle = None
             /\ d.current_ladle = stations[u].current_ladle
             /\ d.current_heat = LadleHeat(stations[u].current_ladle)
             /\ d.state = "moving"
             /\ d.source = c.source
             /\ d.destination = c.destination
             /\ d.error_count = c.error_count

\* C26: in Lifting, if the unit at the source has no ladle, the crane
\* returns directly to Idle with source and destination cleared, without
\* passing through Error and without incrementing error_count (from Idle it
\* may start the next queued task in the same turn); if the unit has a
\* ladle, the crane takes it (the unit's current_ladle becomes empty, the
\* crane holds that ladle and its heat) and goes to Moving.
C26_LiftingPickUp ==
    [][\A k \in DOMAIN cranes :
          PickUp(k) => PickUpOutcome(cranes[k], cranes'[k],
                                     find_unit(cranes[k].source))]_vars

\* A crane is Idle, with no errors, after the one task it was given found
\* no ladle at its source.
C26_Witness ==
    \E k \in DOMAIN cranes :
        /\ cranes[k].state = "idle"
        /\ cranes[k].task_count = 1
        /\ cranes[k].error_count = 0
        /\ cranes[k].source = None
        /\ cranes[k].destination = None
        /\ cranes[k].pc = "idle_hold"
        /\ lastCall.n = 1
        /\ lastCall.args[2] = "LMF"
        /\ stations = InitStations

\* This step is the turn in which crane k, in Lowering, asks the unit at
\* its destination to accept the ladle.
Drop(k) ==
    /\ TurnOf("crane", k)
    /\ cranes[k].pc = "lowering_hold"
    /\ find_unit(cranes[k].destination) # None

\* C27: in Lowering, whatever the outcome of asking the destination unit to
\* accept the ladle (accepted, refused, unit lacks add_ladle, or add_ladle
\* raises), the crane ends the phase in Idle with carried ladle, carried
\* heat, source and destination all cleared (from Idle it may start the
\* next queued task in the same turn), and does not retry the drop.
C27_LoweringEndsIdle ==
    [][\A k \in DOMAIN cranes :
          Drop(k) =>
              /\ ~Carrying(cranes'[k])
              /\ cranes'[k].current_heat = None
              /\ cranes'[k].state \notin {"lowering", "error"}
              /\ \/ /\ cranes'[k].state = "idle"
                    /\ cranes'[k].source = None
                    /\ cranes'[k].destination = None
                 \/ NextTaskStarted(cranes[k], cranes'[k])]_vars

\* A crane is Idle with nothing carried after the unit at its destination
\* has refused the ladle: the ladle is with no unit and with no crane.
C27_Witness ==
    \E k \in DOMAIN cranes :
        /\ cranes[k].state = "idle"
        /\ Cleared(cranes[k])
        /\ cranes[k].task_count = 1
        /\ cranes[k].pc = "idle_hold"
        /\ lastCall.n = 1
        /\ lastCall.args[3] = "Stand"
        /\ \A u \in Stations : stations[u].current_ladle = None

\* C28: busy_time accrues for every elapsed simulated duration the crane
\* spends outside Idle: at any instant at which the crane is Idle,
\* busy_time equals the total simulated time it has spent in Moving,
\* Lifting, Lowering and Error since creation (the duration of a Lowering
\* phase and of an Error cooldown included).
C28_BusyTimeIsTimeNotIdle ==
    \A k \in DOMAIN cranes :
        cranes[k].state = "idle" => cranes[k].busy_time = cranes[k].spent

\* busy_time never counts more than the time spent outside Idle.
BusyTimeAtMostSpent ==
    \A k \in DOMAIN cranes : cranes[k].busy_time <= cranes[k].spent

\* The car has just ended the wait of a path segment: it was suspended at
\* the wait of the moving branch and its process has taken a turn.
SegmentDone(c, d) == c.pc = "move_hold" /\ d # c

\* What a turn that ends a segment's wait leaves: the car stands at the end
\* of that segment; before the last segment it is still moving on the same
\* path, one segment further; after the last one it has left the moving
\* status, to unloading when it carries a heat (unless the unloading branch
\* of the same turn found its target unit invalid) and to idle otherwise.
SegmentOrder(c, d) ==
    /\ c.status = "moving"
    /\ c.current_path_segment < Len(c.path)
    /\ d.position = c.path[c.current_path_segment + 1].to
    /\ IF c.current_path_segment + 1 < Len(c.path)
           THEN /\ d.status = "moving"
                /\ d.path = c.path
                /\ d.current_path_segment = c.current_path_segment + 1
                /\ d.pc = "move_hold"
       ELSE IF c.current_heat = None
           THEN "idle" \in {d.trace[i] : i \in 1..Len(d.trace)}
       ELSE \/ /\ d.status = "unloading"
               /\ d.path = c.path
               /\ d.current_path_segment = Len(c.path)
               /\ d.current_heat = c.current_heat
               /\ d.current_bay = c.destination.bay
            \/ d.n_fault = c.n_fault + 1

\* C29: while Moving, a car traverses its path segments strictly in order:
\* after each segment's wait its position is that segment's end point and
\* current_path_segment has increased by exactly one; when the last segment
\* is done the car goes to Unloading if it still carries a heat and to Idle
\* otherwise; and current_path_segment never exceeds the path length.
C29_SegmentsInOrder ==
    [][\A c \in DOMAIN cars :
          /\ SegmentDone(cars[c], cars'[c]) => SegmentOrder(cars[c], cars'[c])
          /\ cars'[c].status = "moving" =>
                 cars'[c].current_path_segment <= Len(cars'[c].path)]_vars

\* A car has arrived in the unloading status with both segments of its path
\* done, the first of them in an earlier turn.
C29_Witness ==
    \E c \in DOMAIN cars :
        /\ cars[c].status = "unloading"
        /\ Len(cars[c].path) = 2
        /\ cars[c].current_path_segment = 2
        /\ cars[c].position = cars[c].path[2].to
        /\ cars[c].position # cars[c].path[1].from

\* The process of car c takes the turn of this step.
OwnTurn(c) == NextEvent("car", c) /\ lastCall' = lastCall

\* No crane of the bay is idle with an empty queue.
NoCraneAvailable(bay) ==
    \A k \in CranesOf(config, bay) : ~crane_is_available(cranes[k])

AtCrane == {"loading", "unloading"}
CraneGiven == {"load_hold", "unload_hold"}

\* The car is resumed at the top of its loop, in Loading or Unloading, and
\* finds no available crane in its bay.
FindsNoCrane(c) ==
    /\ OwnTurn(c)
    /\ cars[c].status \in AtCrane
    /\ cars[c].pc \notin CraneGiven \cup {"move_hold"}
    /\ NoCraneAvailable(cars[c].current_bay)

\* The car waits the retry interval and nothing else has changed.
WaitsAndRetries(c) ==
    /\ cars'[c] = [cars[c] EXCEPT !.pc = "wait_hold"]
    /\ \E i \in 1..Len(events') :
           events'[i] = [kind |-> "car", id |-> c,
                         time |-> Head(events).time + Ticks(RetryHold)]
    /\ cranes' = cranes

\* C30: a car in Loading or Unloading that finds no available crane in its
\* current bay keeps its status, heat, destination and path unchanged,
\* waits the fixed retry interval and asks again; it leaves Loading or
\* Unloading only in a turn of its own, and then either after the wait a
\* crane gave it or in a turn in which a crane of its bay was available; and
\* it begins that wait only in a turn in which a crane of its bay was
\* available.
C30_WaitsForCrane ==
    [][\A c \in DOMAIN cars :
          /\ FindsNoCrane(c) => WaitsAndRetries(c)
          /\ (cars[c].status \in AtCrane /\ cars'[c].status # cars[c].status)
                => /\ OwnTurn(c)
                   /\ \/ cars[c].pc \in CraneGiven
                      \/ ~NoCraneAvailable(cars[c].current_bay)
          /\ (cars'[c].pc \in CraneGiven /\ OwnTurn(c))
                => ~NoCraneAvailable(cars'[c].current_bay)]_vars

\* A car waits the retry interval in Loading or Unloading, the cranes of its
\* bay all busy.
C30_Witness ==
    \E c \in DOMAIN cars :
        /\ cars[c].status \in AtCrane
        /\ cars[c].pc = "wait_hold"
        /\ NoCraneAvailable(cars[c].current_bay)
        /\ CranesOf(config, cars[c].current_bay) # {}
        /\ \E i \in 1..Len(events) :
               /\ events[i].kind = "car" /\ events[i].id = c
               /\ events[i].time = now + Ticks(RetryHold)

\* What a refusal f in the run d of the routine has left: the request is
\* pending without a car and once in the queue, under its own priority and
\* submission time; the car is idle; the run ended there; and the queue
\* holds the requests it held before the run, less those the run assigned.
PutBack(d, f) ==
    /\ f.status = "pending"
    /\ f.assigned_car = 0
    /\ Len(f.entries) = 1
    /\ f.entries[1].key = <<requests[f.request].priority,
                            requests[f.request].time_requested>>
    /\ f.car_status = "idle"
    /\ Len(d.refused) = 1
    /\ d.all_assigned = f.assigned
    /\ d.after = f.queued
    /\ d.after = d.before \ d.assigned
    /\ f.request \in d.after

\* C31: when assign_heat fails for the selected car, the drain routine puts
\* the request back in the pending queue with status pending and no
\* assigned car, at its original priority and submission time, and stops
\* draining; the car is left Idle and no request is lost or duplicated.
C31_RefusedIsPutBack ==
    \A n \in DOMAIN drains :
        \A j \in DOMAIN drains[n].refused :
            PutBack(drains[n], drains[n].refused[j])

\* A car has refused a request in a run that had assigned another request
\* before.
C31_Witness ==
    \E n \in DOMAIN drains :
        /\ drains[n].refused # <<>>
        /\ drains[n].assigned # {}

\* The state of the requests between two invocations of the dispatcher:
\* a request in the queue is pending and has no car; a request whose
\* assignment has succeeded is out of the queue, assigned, with its car.
Lifecycle ==
    /\ \A n \in DOMAIN pending :
           /\ requests[pending[n].val].status = "pending"
           /\ requests[pending[n].val].assigned_car = 0
    /\ \A i \in DOMAIN requests :
           (requests[i].order > 0 \/ requests[i].status = "assigned") =>
               /\ requests[i].status = "assigned"
               /\ requests[i].assigned_car \in DOMAIN cars
               /\ i \notin Queued(pending)
               /\ requests[i].order > 0

\* The fields the dispatcher never writes after request_transport.
Submitted(r) ==
    <<r.heat, r.from_unit, r.to_unit, r.from_bay, r.to_bay, r.car_type,
      r.time_requested, r.priority>>

\* A request that differs after a step has been assigned by a run of
\* _process_pending_requests in that step, which has left the fields of
\* the submission alone.
OnlyDispatcher ==
    \A i \in DOMAIN requests :
        /\ i \in DOMAIN requests'
        /\ requests'[i] # requests[i] =>
               /\ \E n \in DOMAIN drains' : i \in drains'[n].assigned
               /\ Submitted(requests'[i]) = Submitted(requests[i])

\* C32: request lifecycle invariant: between dispatcher invocations every
\* request in the pending queue has status pending and no assigned car,
\* every request whose assignment succeeded has been removed from the queue
\* with status assigned and its assigned car set, and a request's fields
\* are changed only by the dispatcher.
C32_RequestLifecycle == []Lifecycle /\ [][OnlyDispatcher]_vars

\* One request is assigned to a car that carries its heat while another
\* waits in the queue.
C32_Witness ==
    \E i, j \in DOMAIN requests :
        /\ requests[i].status = "assigned"
        /\ cars[requests[i].assigned_car].current_heat = requests[i].heat
        /\ requests[j].status = "pending"
        /\ j \in Queued(pending)

\* The situations the heat of request i can be in: its request is in the
\* pending queue; it is the current_heat of a car; it has been passed to
\* add_heat of its destination unit; a car has given it up in the logged
\* branch for an invalid destination unit.
Carriers(i) == {c \in DOMAIN cars : cars[c].current_heat = requests[i].heat}
HandedOver(i) ==
    \E n \in DOMAIN delivered :
        /\ delivered[n].heat = requests[i].heat
        /\ delivered[n].unit = requests[i].to_unit
GivenUp(i) == \E c \in DOMAIN cars : requests[i].heat \in cars[c].dropped

Situations(i) ==
    {s \in {"queue", "car", "unit", "dropped"} :
        \/ s = "queue" /\ InQueue(pending, i)
        \/ s = "car" /\ Carriers(i) # {}
        \/ s = "unit" /\ HandedOver(i)
        \/ s = "dropped" /\ GivenUp(i)}

\* C33: no accepted request is silently lost: every heat passed to
\* request_transport is in exactly one of these situations: its request is
\* in the pending queue, it is the current_heat of exactly one car, it has
\* been handed to its destination unit through add_heat, or it was dropped
\* by a logged failure branch of the car that was carrying it.
C33_NoRequestLost ==
    \A i \in DOMAIN requests :
        /\ Cardinality(Situations(i)) = 1
        /\ Cardinality(Carriers(i)) <= 1

\* The requests a run of the dispatcher has assigned to car c in the step.
GivenTo(c) ==
    {i \in DOMAIN requests' :
        /\ requests'[i].assigned_car = c
        /\ \E n \in DOMAIN drains' : i \in drains'[n].assigned}

\* Car c, busy before its turn, has become idle in the turn, and the idle
\* callback has assigned it request i, the last it was given in the turn.
Reentrant(c, i) ==
    /\ NextEvent("car", c)
    /\ lastCall' = lastCall
    /\ cars[c].status # "idle"
    /\ i \in GivenTo(c)
    /\ \A j \in GivenTo(c) : requests'[j].order <= requests'[i].order

\* The car holds what assign_heat has set for request i.
AssignmentIntact(c, i) ==
    /\ cars'[c].status = "loading"
    /\ cars'[c].current_heat = requests'[i].heat
    /\ cars'[c].destination = [bay |-> requests'[i].to_bay,
                               unit |-> requests'[i].to_unit]
    /\ ValidPath(cars'[c].path)
    /\ cars'[c].current_path_segment = 0

\* C34: re-entrant assignment is preserved: when a car's set_status("idle")
\* synchronously runs the dispatcher's idle callback and that callback
\* assigns a new heat to the same car, the rest of the car's interrupted
\* turn does not overwrite any of the newly set fields; at the end of the
\* turn the car is Loading with the new heat, destination and path intact.
C34_ReentrantAssignmentKept ==
    [][\A c \in DOMAIN cars : \A i \in DOMAIN requests :
          Reentrant(c, i) => AssignmentIntact(c, i)]_vars

\* The dispatcher has called assign_heat, in run d, on cars that were idle
\* when the run began and that the run had not given a request before.
CalledOnIdle(d) ==
    /\ \A i \in d.assigned :
           requests[i].assigned_car \in d.idle \ TakenBefore(d, i)
    /\ \A j \in DOMAIN d.refused :
           /\ d.refused[j].car \in d.idle
           /\ d.refused[j].car_status = "idle"
           /\ \A i \in d.assigned : requests[i].assigned_car # d.refused[j].car

\* The requests assigned to car c whose heat has neither been passed to
\* add_heat nor been given up: the requests the car still has.
OpenRequests(c) ==
    {i \in DOMAIN requests :
        /\ requests[i].status = "assigned"
        /\ requests[i].assigned_car = c
        /\ ~HandedOver(i)
        /\ ~GivenUp(i)}

OneCarPerHeat == \A i \in DOMAIN requests : Cardinality(Carriers(i)) <= 1

\* C35: exclusive car allocation: the dispatcher calls assign_heat only on
\* a car that is Idle at that moment, a car never has more than one request
\* assigned to it at a time, and no heat is the current_heat of two cars at
\* once, over every interleaving of request_transport calls and idle
\* callbacks.
C35_ExclusiveCarAllocation ==
    /\ \A n \in DOMAIN drains : CalledOnIdle(drains[n])
    /\ \A c \in DOMAIN cars : Cardinality(OpenRequests(c)) <= 1
    /\ OneCarPerHeat

\* The first and the last part of the claim.
CalledOnIdleCars ==
    /\ \A n \in DOMAIN drains : CalledOnIdle(drains[n])
    /\ OneCarPerHeat

\* Car c has, in its turn, obtained crane k of its bay and called
\* assign_task on it: k was the first available crane of the bay, and the
\* car now waits for the time the crane gave.
Obtains(c, k) ==
    /\ OwnTurn(c)
    /\ cars'[c].pc \in CraneGiven
    /\ k \in CranesOf(config, cars'[c].current_bay)
    /\ crane_is_available(cranes[k])
    /\ \A j \in CranesOf(config, cars'[c].current_bay) :
           crane_is_available(cranes[j]) => k <= j

\* The crane works on the car's task: it is not available to anyone, and
\* the car is one end of its task.
Serves(crane, name) ==
    /\ ~crane_is_available(crane)
    /\ name \in {crane.source, crane.destination}

\* C36: exclusive crane allocation: when several cars in the same bay ask
\* for a crane at the same simulated instant, no crane serves two cars at
\* once; after a car has obtained a crane and called assign_task on it,
\* that crane is not reported available to any other car until it has
\* finished that car's task.
C36_ExclusiveCraneAllocation ==
    [][\A c \in DOMAIN cars : \A k \in DOMAIN cranes :
          Obtains(c, k) => Serves(cranes'[k], CarName(config, c))]_vars

\* Two cars of one bay wait, from the same instant on, for the time a crane
\* gave them, and the only crane of the bay is still available.
TwoCarsOneCrane ==
    \E c, d \in DOMAIN cars :
        /\ c < d
        /\ cars[c].current_bay = cars[d].current_bay
        /\ cars[c].pc \in CraneGiven /\ cars[d].pc \in CraneGiven
        /\ \A k \in CranesOf(config, cars[c].current_bay) :
               crane_is_available(cranes[k])
        /\ \E m, n \in DOMAIN events :
               /\ events[m] = [kind |-> "car", id |-> c, time |-> now]
               /\ events[n] = [kind |-> "car", id |-> d, time |-> now]

\* C37: the crane process never stalls the simulated clock: from every
\* reachable crane state (every state value and every task-queue length,
\* including two or more queued tasks on an Idle crane), the crane's
\* process loop reaches a timed wait after finitely many iterations, so
\* simulated time can always advance.
C37_CraneNeverStalls ==
    /\ ~hung
    /\ \A k \in DOMAIN cranes :
           \E n \in DOMAIN events : /\ events[n].kind = "crane"
                                    /\ events[n].id = k

\* Car c is resumed after the wait for the time its crane gave, and the
\* crane had rejected the task: assign_task had answered 0.
ResumedAfterRejection(c) ==
    /\ OwnTurn(c)
    /\ cars[c].pc \in CraneGiven
    /\ cars[c].load_time = 0

\* C38: a car advances from Loading to Moving, and from Unloading to
\* delivery (add_heat) and Idle, only if the crane it obtained actually
\* accepted the task: if the crane's assign_task rejects the task (returns
\* 0 because a location is outside the crane's bay, leaving the crane
\* Idle), the car does not advance and stays in Loading or Unloading.
C38_AdvancesOnlyIfAccepted ==
    [][\A c \in DOMAIN cars :
          ResumedAfterRejection(c) =>
              /\ cars'[c].status = cars[c].status
              /\ cars'[c].current_heat = cars[c].current_heat
              /\ delivered' = delivered]_vars

\* A heat has been passed to add_heat by a car whose crane had rejected
\* both of its tasks.
DeliveredWithoutCrane ==
    \E n \in DOMAIN delivered :
        \A k \in DOMAIN cranes : cranes[k].task_count = 0

\* C39: an Idle crane holds nothing: in every reachable state in which a
\* crane's state is Idle, its carried ladle, carried heat, source and
\* destination are all unset, whichever path brought it to Idle (Lowering,
\* Lifting without a ladle, Error recovery, or the outer
\* unhandled-exception handler).
C39_IdleCraneHoldsNothing ==
    \A k \in DOMAIN cranes :
        cranes[k].state = "idle" => Cleared(cranes[k])

\* A request the fleet can serve: a car of its type exists, and its
\* destination lies in a bay of the plant, so that assign_heat finds a path.
HasCar(i) == \E c \in DOMAIN cars : cars[c].car_type = requests[i].car_type
Assignable(i) ==
    /\ i \in DOMAIN requests
    /\ HasCar(i)
    /\ requests[i].to_bay \in Bays(config)

\* Request i has been assigned to a car.
Dispatched(i) == i \in DOMAIN requests /\ requests[i].order > 0

\* Request i waits behind a request that no run of the dispatcher can
\* assign: the heap yields that one first, and the run stops at it.
AheadOf(j, i) ==
    \E m, n \in DOMAIN pending :
        /\ pending[m].val = j
        /\ pending[n].val = i
        /\ Compare(pending[m], pending[n]) = "lt"
Blocked(i) ==
    /\ InQueue(pending, i)
    /\ \E j \in DOMAIN requests : ~Assignable(j) /\ AheadOf(j, i)

ServedUnlessBlocked ==
    \A i \in 1..MaxReq :
        [](Assignable(i) => <>(Dispatched(i) \/ Blocked(i)))
BlockedForEver ==
    [][\A i \in DOMAIN requests : Blocked(i) => Blocked(i)']_vars

\* A request for the treatment car waits behind a request for a tapping
\* car, which the plant does not have, while the treatment car is idle.
StarvedBehindMissingType ==
    \E i, j \in DOMAIN requests :
        /\ Assignable(i) /\ Blocked(i) /\ AheadOf(j, i)
        /\ ~HasCar(j)
        /\ \E c \in DOMAIN cars :
               /\ cars[c].car_type = requests[i].car_type
               /\ cars[c].status = "idle"
        /\ now = MaxTime

=============================================================================
